---------------------------- MODULE Spec2Model ----------------------------
(***************************************************************************)
(* A model of the CodeCommit / CodeBuild trigger Lambda:                   *)
(*   aws_codecommit/notification.py          CodeCommitEvent               *)
(*   aws_codecommit/conventional_commits.py  ConventionalCommitParser      *)
(*   lambda_app/lambda_handler.py            do_we_trigger_build_job       *)
(*                                           and the build dispatcher      *)
(*   aws_codecommit/cc_client.py             commit_file                   *)
(*   aws_codecommit/better_boto/pr.py        PulLRequestTarget.from_dict   *)
(* Python strings are TLA+ strings; TLC reads them as sequences of         *)
(* one-character strings (Len, Head, Tail, SubSeq, \o).  Optional values   *)
(* are None == <<>> or Some(x) == <<x>>.                                   *)
(***************************************************************************)
EXTENDS Integers, Sequences, FiniteSets, TLC

VARIABLES
    cc_event,        \* the CodeCommitEvent instance being handled (its raw fields)
    commit_message,  \* what the commit lookup returns for the event's source commit
    pc,              \* position of the run
    kind,            \* the cached event_type of cc_event, once read
    decision,        \* return value of do_we_trigger_build_job
    env_prefix,      \* prefix argument of the last to_env_var call
    env_var,         \* mapping returned by the last to_env_var call
    restored,        \* event returned by the last from_env_var call
    parsed,          \* outcome of the last parse_message call
    stub,            \* type set given to the last is_certain_semantic_commit call
    has_type,        \* outcome of the last is_certain_semantic_commit call
    flags,           \* what the is_*_commit functions return for commit_message
    branch_tests,    \* a branch name and what the is_*_branch functions return for it
    accessors,       \* source / target branch and commit read from cc_event
    jobs,            \* the BuildJob list of handle_codecommit_event
    job_index,       \* position of the for loop over jobs (1-based)
    calls,           \* the calls made to the CodeCommit / CodeBuild clients, in order
    raised,          \* the exception that ended the handler, if any
    build_job_comment_id,  \* local of handle_codecommit_event
    cb_event,        \* the CodeBuild notification and the build it names
    cache,           \* the cached properties of cc_event computed so far, by name
    reads,           \* the read-only calls made to the CodeCommit client, in order
    commit_result,   \* arguments and outcome of the last commit_file call
    pr_target,       \* payload and result of the last PulLRequestTarget.from_dict
    probe_job        \* a BuildJob, the upsert_env_var calls made on it, its state before

\* the state of the classifier, the parser and the serializer
event_vars == <<cc_event, commit_message, kind, decision, env_prefix, env_var,
                restored, parsed, stub, has_type>>

\* results of the pure functions called on their own
probe_vars == <<flags, branch_tests, accessors>>

\* the state of the build dispatcher
dispatch_vars == <<jobs, job_index, calls, raised, build_job_comment_id, cb_event>>

\* what the handler has looked up for the event so far
lookup_vars == <<cache, reads>>

\* results of the client helpers called on their own
client_vars == <<commit_result, pr_target, probe_job>>

vars == <<pc, event_vars, probe_vars, dispatch_vars, lookup_vars, client_vars>>

None == <<>>
Some(x) == <<x>>

-----------------------------------------------------------------------------
(* Python str methods *)

LowerLetters == "abcdefghijklmnopqrstuvwxyz"
UpperLetters == "ABCDEFGHIJKLMNOPQRSTUVWXYZ"
Digits == "0123456789"

CharsOf(s) == {SubSeq(s, i, i) : i \in 1..Len(s)}

\* index of the first occurrence of character c in s, 0 when absent
IndexOf(s, c) ==
    IF c \in CharsOf(s)
    THEN CHOOSE i \in 1..Len(s) :
            /\ SubSeq(s, i, i) = c
            /\ \A j \in 1..(i - 1) : SubSeq(s, j, j) # c
    ELSE 0

LowerSet == CharsOf(LowerLetters)
UpperSet == CharsOf(UpperLetters)
upper_map == [c \in LowerSet |-> LET i == IndexOf(LowerLetters, c) IN SubSeq(UpperLetters, i, i)]
lower_map == [c \in UpperSet |-> LET i == IndexOf(UpperLetters, c) IN SubSeq(LowerLetters, i, i)]

upper_char(c) == IF c \in LowerSet THEN upper_map[c] ELSE c

lower_char(c) == IF c \in UpperSet THEN lower_map[c] ELSE c

RECURSIVE upper(_)
upper(s) == IF s = "" THEN "" ELSE upper_char(Head(s)) \o upper(Tail(s))

RECURSIVE lower(_)
lower(s) == IF s = "" THEN "" ELSE lower_char(Head(s)) \o lower(Tail(s))

Whitespace == {" ", "\t", "\n", "\r"}

RECURSIVE lstrip(_)
lstrip(s) == IF s # "" /\ Head(s) \in Whitespace THEN lstrip(Tail(s)) ELSE s

RECURSIVE rstrip(_)
rstrip(s) ==
    IF s # "" /\ SubSeq(s, Len(s), Len(s)) \in Whitespace
    THEN rstrip(SubSeq(s, 1, Len(s) - 1))
    ELSE s

strip(s) == rstrip(lstrip(s))

startswith(s, p) == Len(s) >= Len(p) /\ SubSeq(s, 1, Len(p)) = p

\* s.split(sep) for a one-character separator
RECURSIVE split(_, _)
split(s, sep) ==
    LET i == IndexOf(s, sep) IN
    IF i = 0 THEN <<s>>
    ELSE <<SubSeq(s, 1, i - 1)>> \o split(SubSeq(s, i + 1, Len(s)), sep)

\* index where the first occurrence of old starts in s, 0 when absent
find(s, old) ==
    LET at == {i \in 1..(Len(s) - Len(old) + 1) : SubSeq(s, i, i + Len(old) - 1) = old}
    IN IF at = {} THEN 0 ELSE CHOOSE i \in at : \A j \in at : i <= j

\* s.replace(old, "", 1)
remove_first(s, old) ==
    LET i == find(s, old) IN
    IF i = 0 THEN s
    ELSE SubSeq(s, 1, i - 1) \o SubSeq(s, i + Len(old), Len(s))

-----------------------------------------------------------------------------
(* aws_codecommit/notification.py *)

\* CodeCommitEventTypeEnum
commit_to_branch == "commit_to_branch"
commit_to_branch_from_merge == "commit_to_branch_from_merge"
create_branch == "create_branch"
delete_branch == "delete_branch"
pr_created == "pr_created"
pr_closed == "pr_closed"
pr_updated == "pr_updated"
pr_merged == "pr_merged"
comment_on_pr_created == "comment_on_pr_created"
comment_on_pr_updated == "comment_on_pr_updated"
reply_to_comment == "reply_to_comment"
approve_pr == "approve_pr"
approve_rule_override == "approve_rule_override"
unknown == "unknown"

CodeCommitEventTypeEnum ==
    {commit_to_branch, commit_to_branch_from_merge, create_branch, delete_branch,
     pr_created, pr_closed, pr_updated, pr_merged, comment_on_pr_created,
     comment_on_pr_updated, reply_to_comment, approve_pr, approve_rule_override,
     unknown}

\* the dataclass fields of CodeCommitEvent, in declaration order
FieldOrder ==
    <<"afterCommitId", "approvalStatus", "author", "beforeCommitId",
      "callerUserArn", "commentId", "commitId", "creationDate",
      "destinationCommit", "destinationCommitId", "destinationReference",
      "event", "isMerged", "inReplyTo", "lastModifiedDate", "mergeOption",
      "notificationBody", "oldCommitId", "overrideStatus", "pullRequestId",
      "pullRequestStatus", "referenceFullName", "referenceName",
      "referenceType", "repositoryId", "repositoryName", "revisionId",
      "sourceCommit", "sourceCommitId", "sourceReference", "title",
      "aws_account_id", "aws_region">>

Fields == {FieldOrder[i] : i \in DOMAIN FieldOrder}

\* CodeCommitEvent(): every field defaults to the empty string
DefaultEvent == [f \in Fields |-> ""]

\* CodeCommitEvent(**kwargs)
CodeCommitEvent(kwargs) ==
    [f \in Fields |-> IF f \in DOMAIN kwargs THEN kwargs[f] ELSE ""]

\* the key a field is stored under
env_key(prefix, field_name) == upper(prefix \o field_name)

\* the keys of all fields, by position in FieldOrder
env_keys(prefix) == [i \in DOMAIN FieldOrder |-> env_key(prefix, FieldOrder[i])]

\* the dict comprehension of to_env_var, over the keys computed once: a later
\* field overwrites an earlier one that has the same key
dict_of(e, key) ==
    LET last(k) == CHOOSE i \in DOMAIN key :
                      key[i] = k /\ \A j \in DOMAIN key : key[j] = k => j <= i
    IN [k \in {key[i] : i \in DOMAIN key} |-> e[FieldOrder[last(k)]]]

\* faulty variant: the keys are written without the prefix
to_env_var_no_prefix(e, prefix) ==
    CHOOSE d \in {dict_of(e, key) : key \in {env_keys("")}} : TRUE

to_env_var(e, prefix) ==
    CHOOSE d \in {dict_of(e, key) : key \in {env_keys(prefix)}} : TRUE

\* the loop of from_env_var, over the keys computed once
kwargs_of(env, key) ==
    LET field_set == {i \in DOMAIN key : key[i] \in DOMAIN env}
    IN [f \in {FieldOrder[i] : i \in field_set} |->
            env[key[CHOOSE i \in field_set : FieldOrder[i] = f]]]

from_env_var(env, prefix) ==
    CodeCommitEvent(CHOOSE kw \in {kwargs_of(env, key) : key \in {env_keys(prefix)}} : TRUE)

\* faulty variant: a merge status update is pr_merged whatever isMerged says
event_type_merge_unchecked(e) ==
    IF e.event = "referenceUpdated" THEN
        IF e.mergeOption # "" THEN commit_to_branch_from_merge
        ELSE commit_to_branch
    ELSE IF e.event = "referenceCreated" THEN create_branch
    ELSE IF e.event = "referenceDeleted" THEN delete_branch
    ELSE IF e.event = "pullRequestCreated" THEN
        IF e.isMerged = "False" /\ e.pullRequestStatus = "Open" THEN pr_created
        ELSE unknown
    ELSE IF e.event = "pullRequestStatusChanged" /\ e.pullRequestStatus = "Closed"
        THEN pr_closed
    ELSE IF e.event = "pullRequestSourceBranchUpdated" THEN pr_updated
    ELSE IF e.event = "pullRequestMergeStatusUpdated" /\ e.pullRequestStatus = "Closed"
        THEN pr_merged
    ELSE IF e.event = "commentOnPullRequestCreated" THEN
        IF e.inReplyTo # "" THEN reply_to_comment
        ELSE comment_on_pr_created
    ELSE IF e.event = "commentOnPullRequestUpdated" THEN
        IF e.inReplyTo # "" THEN reply_to_comment
        ELSE comment_on_pr_updated
    ELSE IF e.event = "pullRequestApprovalStateChanged" /\ e.approvalStatus = "APPROVE"
        THEN approve_pr
    ELSE IF e.event = "pullRequestApprovalRuleOverridden" THEN approve_rule_override
    ELSE unknown

event_type(e) ==
    IF e.event = "referenceUpdated" THEN
        IF e.mergeOption # "" THEN commit_to_branch_from_merge
        ELSE commit_to_branch
    ELSE IF e.event = "referenceCreated" THEN create_branch
    ELSE IF e.event = "referenceDeleted" THEN delete_branch
    ELSE IF e.event = "pullRequestCreated" THEN
        IF e.isMerged = "False" /\ e.pullRequestStatus = "Open" THEN pr_created
        ELSE unknown
    ELSE IF e.event = "pullRequestStatusChanged" /\ e.pullRequestStatus = "Closed"
        THEN pr_closed
    ELSE IF e.event = "pullRequestSourceBranchUpdated" THEN pr_updated
    ELSE IF /\ e.event = "pullRequestMergeStatusUpdated"
            /\ e.isMerged = "True"
            /\ e.pullRequestStatus = "Closed"
        THEN pr_merged
    ELSE IF e.event = "commentOnPullRequestCreated" THEN
        IF e.inReplyTo # "" THEN reply_to_comment
        ELSE comment_on_pr_created
    ELSE IF e.event = "commentOnPullRequestUpdated" THEN
        IF e.inReplyTo # "" THEN reply_to_comment
        ELSE comment_on_pr_updated
    ELSE IF e.event = "pullRequestApprovalStateChanged" /\ e.approvalStatus = "APPROVE"
        THEN approve_pr
    ELSE IF e.event = "pullRequestApprovalRuleOverridden" THEN approve_rule_override
    ELSE unknown

is_commit_to_branch_event(e) == event_type(e) = commit_to_branch
is_commit_to_branch_from_merge_event(e) == event_type(e) = commit_to_branch_from_merge
is_commit_event(e) ==
    is_commit_to_branch_event(e) \/ is_commit_to_branch_from_merge_event(e)
is_create_branch_event(e) == event_type(e) = create_branch
is_delete_branch_event(e) == event_type(e) = delete_branch
is_pr_created_event(e) == event_type(e) = pr_created
is_pr_closed_event(e) == event_type(e) = pr_closed
is_pr_update_event(e) == event_type(e) = pr_updated
is_pr_merged_event(e) == event_type(e) = pr_merged
is_comment_on_pr_created_event(e) == event_type(e) = comment_on_pr_created
is_comment_on_pr_updated_event(e) == event_type(e) = comment_on_pr_updated
is_reply_to_comment_event(e) == event_type(e) = reply_to_comment
is_comment_event(e) ==
    is_comment_on_pr_created_event(e) \/ is_reply_to_comment_event(e)
is_approve_pr_event(e) == event_type(e) = approve_pr
is_approve_rule_override_event(e) == event_type(e) = approve_rule_override
is_pr_event(e) ==
    \/ is_pr_created_event(e)
    \/ is_pr_update_event(e)
    \/ is_pr_merged_event(e)
    \/ is_pr_closed_event(e)
is_pr_created_or_updated_event(e) == is_pr_created_event(e) \/ is_pr_update_event(e)

source_branch(e) ==
    IF is_pr_event(e) THEN remove_first(e.sourceReference, "refs/heads/")
    ELSE IF is_commit_event(e) THEN e.referenceName
    ELSE IF is_comment_event(e) THEN ""
    ELSE IF is_approve_pr_event(e) \/ is_approve_rule_override_event(e)
        THEN remove_first(e.sourceReference, "refs/heads/")
    ELSE ""

source_commit(e) ==
    IF is_pr_event(e) THEN e.sourceCommit
    ELSE IF is_commit_event(e) THEN e.commitId
    ELSE IF is_comment_event(e) THEN e.afterCommitId
    ELSE IF is_approve_pr_event(e) \/ is_approve_rule_override_event(e)
        THEN e.sourceCommit
    ELSE ""

\* faulty variant: the reference is returned as it is
target_branch_full_reference(e) ==
    IF is_pr_event(e) \/ is_approve_pr_event(e) \/ is_approve_rule_override_event(e)
    THEN e.destinationReference
    ELSE ""

target_branch(e) ==
    IF is_pr_event(e) THEN remove_first(e.destinationReference, "refs/heads/")
    ELSE IF is_approve_pr_event(e) \/ is_approve_rule_override_event(e)
        THEN remove_first(e.destinationReference, "refs/heads/")
    ELSE ""

target_commit(e) ==
    IF is_pr_event(e) THEN e.destinationCommit
    ELSE IF is_commit_event(e) THEN e.oldCommitId
    ELSE IF is_comment_event(e) THEN e.beforeCommitId
    ELSE IF is_approve_pr_event(e) \/ is_approve_rule_override_event(e)
        THEN e.destinationCommit
    ELSE ""

-----------------------------------------------------------------------------
(* aws_codecommit/conventional_commits.py *)

\* the values of SemanticCommitEnum, in declaration order
SemanticCommitEnum ==
    <<"chore", "feat", "feature", "fix", "doc", "test", "utest", "itest",
      "ltest", "build", "pub", "publish", "rls", "release", "clean", "cleanup",
      "dev", "develop", "int", "stage", "staging", "qa", "preprod", "prod",
      "blue", "green">>

\* ConventionalCommitParser.__init__: self.types of default_parser
parser_types == {strip(lower(SemanticCommitEnum[i])) : i \in DOMAIN SemanticCommitEnum}

\* \w, for the ASCII characters of the model
WordClass == LowerSet \cup UpperSet \cup CharsOf(Digits) \cup {"_"}
\* [\w ,]
TypesClass == WordClass \cup {" ", ","}
\* [\w-]
ScopeClass == WordClass \cup {"-"}

\* length of the longest prefix of s whose characters are all in class
RECURSIVE span(_, _)
span(s, class) ==
    IF s # "" /\ Head(s) \in class THEN 1 + span(Tail(s), class) ELSE 0

\* the character of s at position i, "" outside s
char_at(s, i) == IF 1 <= i /\ i <= Len(s) THEN SubSeq(s, i, i) ELSE ""

\* subject_regex.match(subject) for the pattern
\*   ^(?P<types>[\w ,]+)(?:\((?P<scope>[\w-]+)\))?(?P<breaking>!)?:[ \t]?(?P<description>.+)$
\* None when there is no match, else Some of the four groups.  The character
\* after a greedy class is never in that class, and "(", "!" and ":" are in
\* neither class, so only [ \t]? can give a character back: to .+ when
\* nothing else is left for it.  "." matches no line break and $ matches at
\* the end or before one final line break.  The pattern is matched left to
\* right, one operator per element.

\* [ \t]?(?P<description>.+)$ on body, the text after the colon without a
\* final line break
match_description(types, scope, breaking, body) ==
    IF body # "" /\ "\n" \notin CharsOf(body)
    THEN Some([types |-> types, scope |-> scope, breaking |-> breaking,
               description |-> IF Len(body) >= 2 /\ Head(body) \in {" ", "\t"}
                               THEN Tail(body) ELSE body])
    ELSE None

\* : at position p, after a types group of n characters
match_colon(subject, n, scope, breaking, p) ==
    IF n > 0 /\ char_at(subject, p) = ":"
    THEN match_description(SubSeq(subject, 1, n), scope, breaking,
            IF char_at(subject, Len(subject)) = "\n" /\ Len(subject) > p
            THEN SubSeq(subject, p + 1, Len(subject) - 1)
            ELSE SubSeq(subject, p + 1, Len(subject)))
    ELSE None

\* (?P<breaking>!)? at position p
match_breaking(subject, n, scope, p) ==
    IF char_at(subject, p) = "!"
    THEN match_colon(subject, n, scope, Some("!"), p + 1)
    ELSE match_colon(subject, n, scope, None, p)

\* (?:\((?P<scope>[\w-]+)\))? after the types group, k the length of the
\* run of scope characters behind an opening parenthesis
match_scope(subject, n, k) ==
    IF k > 0 /\ char_at(subject, n + k + 2) = ")"
    THEN match_breaking(subject, n, Some(SubSeq(subject, n + 2, n + k + 1)), n + k + 3)
    ELSE match_breaking(subject, n, None, n + 1)

\* after the types group of n characters
match_after_types(subject, n) ==
    match_scope(subject, n,
        IF char_at(subject, n + 1) = "("
        THEN span(SubSeq(subject, n + 2, Len(subject)), ScopeClass)
        ELSE 0)

subject_regex_match(subject) == match_after_types(subject, span(subject, TypesClass))

\* faulty variant: the whole message is taken as the subject
extract_subject_whole_message(msg) == strip(msg)

\* ConventionalCommitParser.extract_subject
extract_subject(msg) == strip(split(msg, "\n")[1])

\* faulty variant: every word of the types group is kept
known_types_keep_all(words) == [i \in DOMAIN words |-> strip(words[i])]

\* a sequence without the repetitions of its entries
RECURSIVE without_repetitions(_)
without_repetitions(q) ==
    IF q = <<>> THEN <<>>
    ELSE <<Head(q)>> \o without_repetitions(SelectSeq(Tail(q), LAMBDA x : x # Head(q)))

\* faulty variant: a keyword written several times is kept once
known_types_deduplicated(words) ==
    without_repetitions(
        SelectSeq([i \in DOMAIN words |-> strip(words[i])], LAMBDA w : w \in parser_types))

\* the list comprehension of extract_commit: the stripped words of the types
\* group that are in self.types, in written order
RECURSIVE known_types(_)
known_types(words) ==
    IF words = <<>> THEN <<>>
    ELSE LET word == strip(Head(words)) IN
         (IF word \in parser_types THEN <<word>> ELSE <<>>) \o known_types(Tail(words))

\* the ConventionalCommit built from a match
commit_of_match(m) ==
    [types |-> known_types(split(m.types, ",")),
     description |-> m.description,
     scope |-> m.scope,
     breaking |-> m.breaking]

\* the body of extract_commit for the value match holds: subscripting the
\* None of a failed match raises TypeError
extract_commit_of(match) ==
    IF match = None THEN [raised |-> TRUE, value |-> None]
    ELSE [raised |-> FALSE, value |-> Some(commit_of_match(match[1]))]

\* ConventionalCommitParser.extract_commit: an outcome [raised, value]
extract_commit(subject) == extract_commit_of(subject_regex_match(subject))

\* except Exception: return None
except_return_none(r) == IF r.raised THEN [raised |-> FALSE, value |-> None] ELSE r

\* faulty variant: the exception of a failed match is not caught
parse_message_no_except(msg) == extract_commit(extract_subject(msg))

\* ConventionalCommitParser.parse_message: try ... except
parse_message(msg) == except_return_none(extract_commit(extract_subject(msg)))

SeqToSet(q) == {q[i] : i \in DOMAIN q}

\* the body of is_certain_semantic_commit for the outcome r of parse_message
has_stub(r, stub_set) ==
    IF r.raised THEN [raised |-> TRUE, value |-> FALSE]
    ELSE IF r.value = None THEN [raised |-> FALSE, value |-> FALSE]
    ELSE [raised |-> FALSE,
          value |-> (SeqToSet(r.value[1].types) \cap stub_set) # {}]

\* is_certain_semantic_commit with default_parser; stub_set is the set built
\* from the stub argument
is_certain_semantic_commit(msg, stub_set) == has_stub(parse_message(msg), stub_set)

is_feat_commit(msg) == is_certain_semantic_commit(msg, {"feat", "feature"}).value
is_fix_commit(msg) == is_certain_semantic_commit(msg, {"fix"}).value
\* faulty variant: only the keyword test counts as a test commit
is_test_commit_only_test(msg) == is_certain_semantic_commit(msg, {"test"}).value

is_test_commit(msg) ==
    is_certain_semantic_commit(msg, {"test", "utest", "itest", "ltest"}).value
is_utest_commit(msg) == is_certain_semantic_commit(msg, {"utest"}).value
is_itest_commit(msg) == is_certain_semantic_commit(msg, {"itest"}).value
is_ltest_commit(msg) == is_certain_semantic_commit(msg, {"ltest"}).value
is_doc_commit(msg) == is_certain_semantic_commit(msg, {"doc"}).value
is_build_commit(msg) == is_certain_semantic_commit(msg, {"build"}).value
is_publish_commit(msg) == is_certain_semantic_commit(msg, {"pub", "publish"}).value
is_release_commit(msg) == is_certain_semantic_commit(msg, {"rls", "release"}).value

-----------------------------------------------------------------------------
(* aws_codecommit/semantic_branch.py: the branch classifier that             *)
(* notification.py and lambda_handler.py import                              *)

is_certain_semantic_branch(name, words) ==
    \E w \in words : startswith(lower(name), w)

\* faulty variant: main is matched by prefix like the other categories
is_main_branch_by_prefix(name) == is_certain_semantic_branch(name, {"main", "master"})

is_main_branch(name) == lower(name) \in {"main", "master"}
is_develop_branch(name) == is_certain_semantic_branch(name, {"dev"})
is_feature_branch(name) == is_certain_semantic_branch(name, {"feat"})
is_release_branch(name) == is_certain_semantic_branch(name, {"rls", "release"})
is_fix_branch(name) == is_certain_semantic_branch(name, {"fix"})
is_build_branch(name) == is_certain_semantic_branch(name, {"build"})
is_doc_branch(name) == is_certain_semantic_branch(name, {"doc"})

(* CodeCommitEvent: the branch tests of notification.py *)
source_is_main_branch(e) == is_main_branch(source_branch(e))
source_is_develop_branch(e) == is_develop_branch(source_branch(e))
source_is_feature_branch(e) == is_feature_branch(source_branch(e))
source_is_fix_branch(e) == is_fix_branch(source_branch(e))
source_is_release_branch(e) == is_release_branch(source_branch(e))
target_is_main_branch(e) == is_main_branch(target_branch(e))

(* CodeCommitEvent attributes that lambda_handler.py reads and the          *)
(* notification.py at hand does not define: the hotfix test of the source   *)
(* branch, the unqualified branch tests (of the source branch, as in        *)
(* tests/test_notification.py) and the pub / rls commit tests               *)
source_is_hotfix_branch(e) == is_fix_branch(source_branch(e))
cc_event_is_feature_branch(e) == is_feature_branch(source_branch(e))
cc_event_is_release_branch(e) == is_release_branch(source_branch(e))
cc_event_is_hotfix_branch(e) == is_fix_branch(source_branch(e))
is_pub_commit(msg) == is_publish_commit(msg)
is_rls_commit(msg) == is_release_commit(msg)

-----------------------------------------------------------------------------
(* lambda_app/lambda_handler.py *)

\* CommitMessagePatternEnum.no_ci
no_ci == "no ci"

is_layer_branch(name) == is_certain_semantic_branch(name, {"layer"})

\* msg is cc_event.commit_message, the message of the event's source commit.
\* The condition of the last "if" of the PR branch: the commit message is
\* not a valid one for the category of the source branch
invalid_commit_on_branch(e, msg) ==
    \/ /\ is_pr_created_or_updated_event(e)
       /\ cc_event_is_feature_branch(e)
       /\ ~ (\/ is_feat_commit(msg)
             \/ is_build_commit(msg)
             \/ is_pub_commit(msg)
             \/ is_utest_commit(msg)
             \/ is_itest_commit(msg)
             \/ is_ltest_commit(msg))
    \/ /\ is_pr_created_or_updated_event(e)
       /\ is_layer_branch(source_branch(e))
       /\ ~ (\/ is_feat_commit(msg)
             \/ is_build_commit(msg)
             \/ is_pub_commit(msg)
             \/ is_utest_commit(msg))
    \/ /\ is_pr_created_or_updated_event(e)
       /\ cc_event_is_release_branch(e)
       /\ ~ (\/ is_test_commit(msg)
             \/ is_fix_commit(msg)
             \/ is_rls_commit(msg))
    \/ /\ is_pr_created_or_updated_event(e)
       /\ cc_event_is_hotfix_branch(e)
       /\ ~ is_fix_commit(msg)

\* faulty variant: the target branch is never looked at
trigger_on_pr_created_or_updated_any_target(e, msg) ==
    IF startswith(msg, no_ci) THEN FALSE
    ELSE IF ~ (\/ source_is_feature_branch(e)
               \/ is_layer_branch(source_branch(e))
               \/ source_is_release_branch(e)
               \/ source_is_hotfix_branch(e)) THEN FALSE
    ELSE IF invalid_commit_on_branch(e, msg) THEN FALSE
    ELSE TRUE

\* faulty variant: the "no ci" marker is never looked at
trigger_on_pr_created_or_updated_no_marker(e, msg) ==
    IF ~ (\/ source_is_feature_branch(e)
          \/ is_layer_branch(source_branch(e))
          \/ source_is_release_branch(e)
          \/ source_is_hotfix_branch(e)) THEN FALSE
    ELSE IF ~ target_is_main_branch(e) THEN FALSE
    ELSE IF invalid_commit_on_branch(e, msg) THEN FALSE
    ELSE TRUE

\* faulty variant: the commit message is never matched against the source branch
trigger_on_pr_created_or_updated_any_commit(e, msg) ==
    IF startswith(msg, no_ci) THEN FALSE
    ELSE IF ~ (\/ source_is_feature_branch(e)
               \/ is_layer_branch(source_branch(e))
               \/ source_is_release_branch(e)
               \/ source_is_hotfix_branch(e)) THEN FALSE
    ELSE IF ~ target_is_main_branch(e) THEN FALSE
    ELSE TRUE

\* the body of the PR created / updated branch of do_we_trigger_build_job
trigger_on_pr_created_or_updated(e, msg) ==
    IF startswith(msg, no_ci) THEN FALSE
    ELSE IF ~ (\/ source_is_feature_branch(e)
               \/ is_layer_branch(source_branch(e))
               \/ source_is_release_branch(e)
               \/ source_is_hotfix_branch(e)) THEN FALSE
    ELSE IF ~ target_is_main_branch(e) THEN FALSE
    ELSE IF invalid_commit_on_branch(e, msg) THEN FALSE
    ELSE TRUE

\* faulty variant: the PR merged branch is missing
do_we_trigger_build_job_no_merge(e, msg) ==
    IF is_commit_event(e) THEN FALSE
    ELSE IF is_pr_created_event(e) \/ is_pr_update_event(e)
        THEN trigger_on_pr_created_or_updated(e, msg)
    ELSE FALSE

\* faulty variant: a commit pushed to the main branch triggers
do_we_trigger_build_job_commit_to_main(e, msg) ==
    IF is_commit_event(e) THEN source_is_main_branch(e)
    ELSE IF is_pr_created_event(e) \/ is_pr_update_event(e)
        THEN trigger_on_pr_created_or_updated(e, msg)
    ELSE IF is_pr_merged_event(e) THEN TRUE
    ELSE FALSE

\* faulty variant: the final else allows
do_we_trigger_build_job_default_allow(e, msg) ==
    IF is_commit_event(e) THEN FALSE
    ELSE IF is_pr_created_event(e) \/ is_pr_update_event(e)
        THEN trigger_on_pr_created_or_updated(e, msg)
    ELSE IF is_pr_merged_event(e) THEN TRUE
    ELSE IF \/ is_create_branch_event(e)
            \/ is_delete_branch_event(e)
            \/ is_comment_event(e)
            \/ is_approve_pr_event(e) THEN FALSE
    ELSE TRUE

do_we_trigger_build_job(e, msg) ==
    IF is_commit_event(e) THEN FALSE
    ELSE IF is_pr_created_event(e) \/ is_pr_update_event(e)
        THEN trigger_on_pr_created_or_updated(e, msg)
    ELSE IF is_pr_merged_event(e) THEN TRUE
    ELSE IF \/ is_create_branch_event(e)
            \/ is_delete_branch_event(e)
            \/ is_comment_event(e)
            \/ is_approve_pr_event(e) THEN FALSE
    ELSE FALSE

\* d[k] = v on a Python dict
set_item(d, k, v) == (k :> v) @@ d

(* CodeCommitEvent: the cached properties, as the handler reads them.       *)
(* cache is the part of the instance's __dict__ that cached_property fills. *)

\* cached_property.__get__: the stored value if there is one, else the
\* value the decorated method computes
cached_property_get(cache_dict, name, value) ==
    IF name \in DOMAIN cache_dict THEN cache_dict[name] ELSE value

\* faulty variant: the computed value is not kept
cached_property_set_nothing(cache_dict, name, value) == cache_dict

\* cached_property.__get__: a value computed for the first time is stored
\* under the name of the property
cached_property_set(cache_dict, name, value) ==
    IF name \in DOMAIN cache_dict THEN cache_dict ELSE set_item(cache_dict, name, value)

\* the committer name the commit lookup returns
committer_name == "committer"

\* reading cc_event.commit_message (and committer_name) runs
\* get_commit_message_and_committer unless its result is stored
needs_commit_lookup(cache_dict) ==
    "_source_commit_message_and_committer" \notin DOMAIN cache_dict

\* the cache after commit_message and committer_name were read, msg being
\* what the lookup returns
cache_with_commit(cache_dict, msg) ==
    cached_property_set(
        cached_property_set(
            cached_property_set(cache_dict, "_source_commit_message_and_committer",
                                <<msg, committer_name>>),
            "commit_message",
            cached_property_get(cache_dict, "_source_commit_message_and_committer",
                                <<msg, committer_name>>)[1]),
        "committer_name",
        cached_property_get(cache_dict, "_source_commit_message_and_committer",
                            <<msg, committer_name>>)[2])

\* do_we_trigger_build_job reads cc_event.commit_message for these events
reads_commit_message(e) ==
    ~ is_commit_event(e) /\ (is_pr_created_event(e) \/ is_pr_update_event(e))

\* the cache after do_we_trigger_build_job: a commit event has its
\* source_branch logged; a pr-created or pr-updated event has its commit
\* message read and, unless the message starts with "no ci", its source
\* and target branch
cache_after_policy(cache_dict, e, msg) ==
    IF is_commit_event(e)
    THEN cached_property_set(cache_dict, "source_branch", source_branch(e))
    ELSE IF reads_commit_message(e)
    THEN IF startswith(msg, no_ci) THEN cache_with_commit(cache_dict, msg)
         ELSE cached_property_set(
                 cached_property_set(cache_with_commit(cache_dict, msg),
                                     "source_branch", source_branch(e)),
                 "target_branch", target_branch(e))
    ELSE cache_dict

\* faulty variant: the handler goes on whatever the decision
is_not_true_never(value) == FALSE

\* handle_codecommit_event: do_we_trigger_build_job(cc_event) is not True,
\* the condition under which the handler returns at once
is_not_true(value) == value # TRUE

-----------------------------------------------------------------------------
(* lambda_app/lambda_handler.py: the build dispatcher *)

\* the prefix "CC_EVENT_" of extract_build_job_from_codecommit_event
CC_EVENT_PREFIX == "CC_EVENT_"

CI_DATA_PREFIX == "CI_DATA_"

\* BuildJob.__init__
BuildJob(start_build_method, start_build_kwargs) ==
    [start_build_method |-> start_build_method,
     start_build_kwargs |-> start_build_kwargs,
     env_var |-> <<>>,
     build_project |-> "",
     aws_account_id |-> "",
     aws_region |-> "",
     repo_name |-> "",
     is_pr |-> FALSE,
     pr_id |-> "",
     before_commit_id |-> "",
     after_commit_id |-> "",
     commit_message |-> "",
     build_run_id |-> ""]

\* the fields of the dataclass CodeBuildProjectConfig
CodeBuildProjectConfigFields == {"project_name", "is_batch_job", "buildspec"}

\* CodeBuildProjectConfig(**dct) for a dict whose keys are fields: a key
\* that is left out takes the default of its field
CodeBuildProjectConfig(dct) ==
    [project_name |-> IF "project_name" \in DOMAIN dct THEN dct["project_name"] ELSE "",
     is_batch_job |-> IF "is_batch_job" \in DOMAIN dct THEN dct["is_batch_job"] ELSE FALSE,
     buildspec |-> IF "buildspec" \in DOMAIN dct THEN dct["buildspec"] ELSE ""]

\* parse_codebuild_projects_config for the file codebuild-projects.json at
\* the commit: file.exists tells whether get_text_file_content finds it,
\* file.json is what json.loads makes of its content (None: it raises)
parse_codebuild_projects_config(file) ==
    IF ~ file.exists
    THEN [raised |-> Some("get_text_file_content"), value |-> <<>>]
    ELSE IF file.json = None
    THEN [raised |-> Some("JSONDecodeError"), value |-> <<>>]
    ELSE IF \E i \in DOMAIN file.json[1] :
                ~ (DOMAIN file.json[1][i] \subseteq CodeBuildProjectConfigFields)
    THEN [raised |-> Some("TypeError"), value |-> <<>>]
    ELSE [raised |-> None,
          value |-> [i \in DOMAIN file.json[1] |-> CodeBuildProjectConfig(file.json[1][i])]]

\* to_env_var_override: one entry per item of the dict env, in the order
\* of its keys (key lists them by field position; the upper-cased names of
\* the fields differ, so no key comes twice)
to_env_var_override(env, key) ==
    [i \in DOMAIN key |-> [name |-> key[i], value |-> env[key[i]], type |-> "PLAINTEXT"]]

\* faulty variant: the first loop takes start_build for every entry
job_of_config_never_batch(cb_project_config) ==
    [BuildJob("start_build",
              IF cb_project_config.buildspec # ""
              THEN [projectName |-> cb_project_config.project_name,
                    buildspecOverride |-> cb_project_config.buildspec]
              ELSE [projectName |-> cb_project_config.project_name])
        EXCEPT !.build_project = cb_project_config.project_name]

\* the first loop of extract_build_job_from_codecommit_event, for one
\* entry of codebuild-projects.json
job_of_config(cb_project_config) ==
    [BuildJob(IF cb_project_config.is_batch_job THEN "start_build_batch"
              ELSE "start_build",
              IF cb_project_config.buildspec # ""
              THEN [projectName |-> cb_project_config.project_name,
                    buildspecOverride |-> cb_project_config.buildspec]
              ELSE [projectName |-> cb_project_config.project_name])
        EXCEPT !.build_project = cb_project_config.project_name]

\* the second loop of extract_build_job_from_codecommit_event, for one job
job_for_event(job, e, env, key) ==
    [job EXCEPT
        !.start_build_kwargs =
            set_item(set_item(job.start_build_kwargs, "sourceVersion", source_commit(e)),
                     "environmentVariablesOverride", to_env_var_override(env, key)),
        !.env_var = env,
        !.aws_account_id = e.aws_account_id,
        !.aws_region = e.aws_region,
        !.repo_name = e.repositoryName,
        !.is_pr = is_pr_event(e),
        !.pr_id = e.pullRequestId,
        !.before_commit_id = source_commit(e),
        !.after_commit_id = target_commit(e)]

\* the jobs of extract_build_job_from_codecommit_event for the dict env
\* that to_env_var returns
jobs_for_event(e, cb_project_config_list, env, key) ==
    [i \in DOMAIN cb_project_config_list |->
        job_for_event(job_of_config(cb_project_config_list[i]), e, env, key)]

\* extract_build_job_from_codecommit_event, given the parsed content of
\* codebuild-projects.json
extract_build_job_from_codecommit_event(e, cb_project_config_list) ==
    CHOOSE js \in {jobs_for_event(e, cb_project_config_list, env, key) :
                      env \in {to_env_var(e, CC_EVENT_PREFIX)},
                      key \in {env_keys(CC_EVENT_PREFIX)}} : TRUE

\* the loop of BuildJob.upsert_env_var over the override list
updated_entries(entries, key, value) ==
    [i \in DOMAIN entries |->
        IF entries[i].name = key THEN [entries[i] EXCEPT !.value = value]
        ELSE entries[i]]

\* BuildJob.upsert_env_var: kwargs.get("environmentVariablesOverride", [])
\* is the list of the job when the key is there and a fresh list, dropped
\* after the call, when it is not
upsert_env_var(job, key, value) ==
    [job EXCEPT
        !.start_build_kwargs =
            IF "environmentVariablesOverride" \notin DOMAIN job.start_build_kwargs
            THEN job.start_build_kwargs
            ELSE set_item(job.start_build_kwargs, "environmentVariablesOverride",
                    IF \E i \in DOMAIN job.start_build_kwargs.environmentVariablesOverride :
                          job.start_build_kwargs.environmentVariablesOverride[i].name = key
                    THEN updated_entries(
                            job.start_build_kwargs.environmentVariablesOverride, key, value)
                    ELSE Append(job.start_build_kwargs.environmentVariablesOverride,
                                [name |-> key, value |-> value, type |-> "PLAINTEXT"])),
        !.env_var = set_item(job.env_var, key, value)]

\* CIData.add_to_job_env_var: the fields commit_message and comment_id, in
\* declaration order
add_to_job_env_var(ci_data, job, prefix) ==
    upsert_env_var(
        upsert_env_var(job, upper(prefix \o "commit_message"), ci_data.commit_message),
        upper(prefix \o "comment_id"), ci_data.comment_id)

\* the arguments of post_comment_for_pull_request in handle_codecommit_event
post_comment_kwargs(job, msg) ==
    [repo_name |-> job.repo_name,
     pr_id |-> job.pr_id,
     before_commit_id |-> job.before_commit_id,
     after_commit_id |-> job.after_commit_id,
     commit_message |-> strip(msg)]

\* faulty variant: the comment is updated without the run id of the build
update_comment_kwargs_without_run(job, comment_id, build_run_id) ==
    [comment_id |-> comment_id, build_run_id |-> "", commit_message |-> strip(job.commit_message)]

\* the arguments of update_comment in handle_codecommit_event; of the
\* content, the run id and the message are kept
update_comment_kwargs(job, comment_id, build_run_id) ==
    [comment_id |-> comment_id,
     build_run_id |-> build_run_id,
     commit_message |-> strip(job.commit_message)]

\* faulty variant: ci_data.comment_id is left at its default
job_with_ci_data_no_comment_id(job, comment_id, msg) ==
    add_to_job_env_var([commit_message |-> msg, comment_id |-> ""],
                       job, CI_DATA_PREFIX)

\* the job after the comment was posted: the comment id and the commit
\* message go into its environment
job_with_ci_data(job, comment_id, msg) ==
    add_to_job_env_var([commit_message |-> msg, comment_id |-> comment_id],
                       job, CI_DATA_PREFIX)

(* aws_codebuild.notification.CodeBuildEvent, as handle_codebuild_event reads it *)
is_state_change_event(ev) == ev.detail_type = "CodeBuild Build State Change"
is_state_in_progress(ev) == is_state_change_event(ev) /\ ev.build_status = "IN_PROGRESS"
is_state_failed(ev) == is_state_change_event(ev) /\ ev.build_status = "FAILED"
is_state_succeeded(ev) == is_state_change_event(ev) /\ ev.build_status = "SUCCEEDED"

\* the comment handle_codebuild_event posts for a build status; no value
\* where it raises NotImplementedError
status_comment(build_status) ==
    IF build_status = "SUCCEEDED" THEN Some("Build Run SUCCEEDED")
    ELSE IF build_status = "FAILED" THEN Some("Build Run FAILED")
    ELSE IF build_status = "STOPPED" THEN Some("Build Run STOPPED")
    ELSE None

\* the condition under which handle_codebuild_event acts
handles_build_status(ev) ==
    is_state_in_progress(ev) \/ is_state_failed(ev) \/ is_state_succeeded(ev)

\* handle_codebuild_event: the environment of the build as a dict
env_of(entries) ==
    [n \in {entries[i].name : i \in DOMAIN entries} |->
        entries[CHOOSE i \in DOMAIN entries :
                    /\ entries[i].name = n
                    /\ \A j \in DOMAIN entries : entries[j].name = n => j <= i].value]

\* handle_codebuild_event for the notification ev, when batch_get_builds
\* succeeds (got) or raises and reply_comment succeeds (ok) or raises: the
\* client calls it makes and the exception it ends with, if any
handle_codebuild_event(ev, got, ok) ==
    IF ~ handles_build_status(ev) THEN [calls |-> <<>>, raised |-> None]
    ELSE IF ~ got
        THEN [calls |-> <<[op |-> "batch_get_builds", ids |-> <<ev.buildUUID>>, ok |-> FALSE]>>,
              raised |-> Some("batch_get_builds")]
    ELSE IF upper(CI_DATA_PREFIX \o "COMMENT_ID") \notin DOMAIN env_of(ev.environment)
        THEN [calls |-> <<[op |-> "batch_get_builds", ids |-> <<ev.buildUUID>>, ok |-> TRUE]>>,
              raised |-> Some("KeyError")]
    ELSE IF status_comment(ev.build_status) = None
        THEN [calls |-> <<[op |-> "batch_get_builds", ids |-> <<ev.buildUUID>>, ok |-> TRUE]>>,
              raised |-> Some("NotImplementedError")]
    ELSE [calls |-> <<[op |-> "batch_get_builds", ids |-> <<ev.buildUUID>>, ok |-> TRUE],
                      [op |-> "reply_comment",
                       comment_id |-> env_of(ev.environment)[upper(CI_DATA_PREFIX \o "COMMENT_ID")],
                       content |-> status_comment(ev.build_status)[1],
                       ok |-> ok]>>,
          raised |-> IF ok THEN None ELSE Some("reply_comment")]

-----------------------------------------------------------------------------
(* aws_codecommit/cc_client.py and aws_codecommit/better_boto.py: commit_file *)

\* whether the name get_last_commit_id_of_branch, which commit_file calls
\* first, is bound in the module: cc_client.py defines it, better_boto.py
\* neither defines nor imports it
get_last_commit_id_of_branch_is_defined(module) == module = "cc_client"

\* "SameFileContentException" in e.__class__.__name__
is_same_file_content(class_name) == find(class_name, "SameFileContentException") > 0

\* faulty variant: with skip_if_no_change every exception of put_file is
\* swallowed
commit_file_skip_any_error(module, branch, put, skip_if_no_change) ==
    IF ~ get_last_commit_id_of_branch_is_defined(module)
    THEN [raised |-> Some("NameError"), value |-> None]
    ELSE IF branch.raised # None THEN [raised |-> branch.raised, value |-> None]
    ELSE IF put.raised = None THEN [raised |-> None, value |-> Some(put.commitId)]
    ELSE IF skip_if_no_change THEN [raised |-> None, value |-> None]
    ELSE [raised |-> put.raised, value |-> None]

\* commit_file of the module, for the outcomes of the client calls it makes:
\* branch is that of get_branch, put that of put_file (raised: the class
\* name of the exception, if any).  value is None where Python returns None
\* or raises.
commit_file(module, branch, put, skip_if_no_change) ==
    IF ~ get_last_commit_id_of_branch_is_defined(module)
    THEN [raised |-> Some("NameError"), value |-> None]
    ELSE IF branch.raised # None THEN [raised |-> branch.raised, value |-> None]
    ELSE IF put.raised = None THEN [raised |-> None, value |-> Some(put.commitId)]
    ELSE IF skip_if_no_change /\ is_same_file_content(put.raised[1])
    THEN [raised |-> None, value |-> None]
    ELSE [raised |-> put.raised, value |-> None]

(* aws_codecommit/better_boto/pr.py *)

\* dct.get("mergeMetadata", {}).get(key)
merge_metadata(dct, key) ==
    IF "mergeMetadata" \in DOMAIN dct /\ key \in DOMAIN dct["mergeMetadata"]
    THEN Some(dct["mergeMetadata"][key])
    ELSE None

\* PulLRequestTarget.from_dict(dct); a subscripted key that is missing
\* raises KeyError
from_dict(dct) ==
    IF ~ ({"repositoryName", "sourceReference", "destinationReference",
           "destinationCommit", "sourceCommit", "mergeBase"} \subseteq DOMAIN dct)
    THEN [raised |-> Some("KeyError"), value |-> None]
    ELSE [raised |-> None,
          value |-> Some([repo_name |-> dct["repositoryName"],
                          src_ref |-> dct["sourceReference"],
                          dst_ref |-> dct["destinationReference"],
                          src_commit |-> dct["destinationCommit"],
                          dst_commit |-> dct["sourceCommit"],
                          merge_base_commit |-> dct["mergeBase"],
                          is_merged |-> merge_metadata(dct, "isMerged"),
                          merged_by |-> merge_metadata(dct, "mergedBy"),
                          merge_commit |-> merge_metadata(dct, "mergeCommitId"),
                          merge_option |-> merge_metadata(dct, "mergeOption")])]

-----------------------------------------------------------------------------
(* Inputs *)

MaxMessages == 30
MaxSourceRefs == 11
MaxDestRefs == 4

Min(a, b) == IF a <= b THEN a ELSE b
FirstOf(samples, n) == {samples[i] : i \in 1..Min(n, Len(samples))}

MessageSamples ==
    <<"feat: x", "fix: x", "build: x", "publish: x", "utest: x", "itest: x",
      "ltest: x", "test: x", "release: x", "no ci: skip", "no ci",
      "no ci, feat, fix: skip the build", "No ci: x",
      "doc: x", "not valid", "fix",
      "feat, build(STORY-001): add validator\nWe have done the following",
      "fix (API)!: no longer support X", "fix:no space after colon",
      "Feat: x", "fix, fix: x", "feat:", "rls: x", "wip: x", "",
      "fix: a: b", "utest, itest: update config", "pub!:  x",
      "fix, wip, Feat, feat: x", "fix:\tx",
      "feature: x", "chore(deps-1): bump">>

SourceRefSamples ==
    <<"refs/heads/feature/a", "refs/heads/layer/a", "refs/heads/release/1",
      "refs/heads/fix/1", "refs/heads/dev", "refs/heads/main",
      "refs/heads/other", "refs/heads/Feat-1", "rls",
      "a/refs/heads/b", "refs/heads/master", "refs/heads/doc/x", "">>

DestRefSamples ==
    <<"refs/heads/main", "refs/heads/dev", "refs/heads/Master",
      "refs/heads/maintenance", "main">>

Messages == FirstOf(MessageSamples, MaxMessages)

\* messages made of type keywords only, as tests/test_notification.py has
\* them, given to the is_*_commit functions next to the others
MaxKeywordOnly == 9
KeywordOnlySamples ==
    <<"feat:", "utest:", "itest:", "ltest:", "build", "pub", "rls", "fix",
      "utest, itest", "feat">>
CommitMessages == Messages \cup FirstOf(KeywordOnlySamples, MaxKeywordOnly)
SourceRefs == FirstOf(SourceRefSamples, MaxSourceRefs)
DestRefs == FirstOf(DestRefSamples, MaxDestRefs)

EventNames ==
    {"referenceUpdated", "referenceCreated", "referenceDeleted",
     "pullRequestCreated", "pullRequestStatusChanged",
     "pullRequestSourceBranchUpdated", "pullRequestMergeStatusUpdated",
     "commentOnPullRequestCreated", "commentOnPullRequestUpdated",
     "pullRequestApprovalStateChanged", "pullRequestApprovalRuleOverridden",
     "somethingElse", ""}

\* every combination of the fields event_type reads
Discriminants ==
    [event : EventNames,
     mergeOption : {"", "FAST_FORWARD_MERGE"},
     isMerged : {"True", "False", ""},
     pullRequestStatus : {"Open", "Closed", ""},
     inReplyTo : {"", "comment-1"},
     approvalStatus : {"APPROVE", "REVOKE"}]

\* two settings of the other discriminants that, over EventNames, give an
\* event of every kind
PolicyDiscriminants ==
    {d \in Discriminants :
        \/ /\ d.mergeOption = "" /\ d.isMerged = "False"
           /\ d.pullRequestStatus = "Open" /\ d.inReplyTo = ""
           /\ d.approvalStatus = "APPROVE"
        \/ /\ d.mergeOption # "" /\ d.isMerged = "True"
           /\ d.pullRequestStatus = "Closed" /\ d.inReplyTo # ""
           /\ d.approvalStatus = "REVOKE"}

DiscriminantFields ==
    {"event", "mergeOption", "isMerged", "pullRequestStatus", "inReplyTo",
     "approvalStatus"}

\* the payload fields of a notification: the discriminants, the references,
\* and the remaining fields either absent (filled = FALSE) or each holding a
\* value of its own
Payload(d, src, dst, filled) ==
    [f \in Fields |->
        IF f \in DiscriminantFields THEN d[f]
        ELSE IF f \in {"sourceReference", "referenceFullName"} THEN src
        ELSE IF f = "referenceName" THEN remove_first(src, "refs/heads/")
        ELSE IF f = "destinationReference" THEN dst
        ELSE IF filled THEN "v-" \o f
        ELSE ""]

\* notifications: events of every kind with every reference and message, and
\* every combination of the discriminants with one reference and message
Notifications ==
    {<<Payload(d, src, dst, TRUE), m>> :
        d \in PolicyDiscriminants, src \in SourceRefs, dst \in DestRefs,
        m \in Messages}
    \cup
    {<<Payload(d, SourceRefSamples[1], DestRefSamples[1], FALSE), MessageSamples[1]>> :
        d \in Discriminants}

\* events handed to to_env_var
SerializedEvents ==
    {Payload(d, src, DestRefSamples[1], filled) :
        d \in PolicyDiscriminants, src \in SourceRefs, filled \in BOOLEAN}

\* events whose branch and commit properties are read: events of every
\* kind with every reference, and every combination of the discriminants
InspectedEvents ==
    {Payload(d, src, dst, TRUE) :
        d \in PolicyDiscriminants, src \in SourceRefs, dst \in DestRefs}
    \cup
    {Payload(d, SourceRefSamples[1], DestRefSamples[1], TRUE) : d \in Discriminants}

Prefixes == {"", "CC_EVENT_", "custom_"}

MaxBranchNames == 28

BranchNameSamples ==
    <<"main", "master", "Main", "MASTER", "maintenance", "master/1", "dev",
      "Dev", "Develop", "dev/", "feat/", "Feat", "Feature", "feature/a", "rls",
      "rls/", "release/1", "Release", "fix", "fix/", "Fix-2", "build", "Build/x",
      "doc", "docs/x", "other", "", "hotfix/1", "layer/a", "x-fix">>

\* branch names handed to the is_*_branch functions
BranchNames == FirstOf(BranchNameSamples, MaxBranchNames)

Stubs ==
    {{}, {"fix"}, {"feat", "feature"}, {"test", "utest", "itest", "ltest"},
     {"doc", "wip"}}

MaxJobs == 2

\* the JSON objects of a codebuild-projects.json; the first leaves is_batch_job and
\* buildspec out
EntrySamples ==
    <<("project_name" :> "project-a"),
      [project_name |-> "project-b", is_batch_job |-> TRUE, buildspec |-> "b/buildspec.yml"],
      [project_name |-> "project-c", is_batch_job |-> FALSE, buildspec |-> "c.yml"]>>

\* the file codebuild-projects.json at the source commit: missing, not
\* JSON, a list of none to MaxJobs entries, a list whose entry has no
\* project_name, a list whose entry has a key that is no field
ManifestFiles ==
    {[exists |-> FALSE, json |-> None],
     [exists |-> TRUE, json |-> None],
     [exists |-> TRUE, json |-> Some(<<("is_batch_job" :> FALSE)>>)],
     [exists |-> TRUE, json |-> Some(<<[project_name |-> "project-a", timeout |-> "5"]>>)]}
    \cup {[exists |-> TRUE, json |-> Some(SubSeq(EntrySamples, 1, n))] :
             n \in 0..Min(MaxJobs, Len(EntrySamples))}

\* what post_comment_for_pull_request and start_build return for the i-th job
PostedCommentId(i) == "comment-" \o SubSeq(Digits, i + 1, i + 1)
StartedBuildId(i) == "project:run-" \o SubSeq(Digits, i + 1, i + 1)

\* environments of a build: one started by the dispatcher, one whose comment
\* id was overridden later in the list, one started by hand
BuildEnvironments ==
    {<<[name |-> "CC_EVENT_EVENT", value |-> "pullRequestCreated"],
       [name |-> "CI_DATA_COMMIT_MESSAGE", value |-> "feat: x"],
       [name |-> "CI_DATA_COMMENT_ID", value |-> "comment-1"]>>,
     <<[name |-> "CI_DATA_COMMENT_ID", value |-> "comment-1"],
       [name |-> "CI_DATA_COMMENT_ID", value |-> "comment-2"]>>,
     <<[name |-> "OTHER", value |-> "x"]>>}

\* CodeBuild notifications: state changes and phase changes of a build
BuildNotifications ==
    [detail_type : {"CodeBuild Build State Change", "CodeBuild Build Phase Change"},
     build_status : {"IN_PROGRESS", "SUCCEEDED", "FAILED", "STOPPED"},
     buildUUID : {"build-1"},
     environment : BuildEnvironments]

\* the two modules that hold a commit_file
CommitFileModules == {"cc_client", "better_boto"}

\* outcomes of get_branch and of put_file
GetBranchOutcomes ==
    {[raised |-> None, commitId |-> "commit-last"],
     [raised |-> Some("BranchDoesNotExistException"), commitId |-> ""]}

PutFileOutcomes ==
    {[raised |-> None, commitId |-> "commit-new"],
     [raised |-> Some("SameFileContentException"), commitId |-> ""],
     [raised |-> Some("ParentCommitIdOutdatedException"), commitId |-> ""],
     [raised |-> Some("FileContentSizeLimitExceededException"), commitId |-> ""],
     [raised |-> Some("EndpointConnectionError"), commitId |-> ""]}

\* pullRequestTargets entries of get_pull_request: an open pull request, a
\* merged one, one whose branches are at the same commit, one without
\* mergeBase
PullRequestTargets ==
    {[repositoryName |-> "repo", sourceReference |-> "refs/heads/feature/a",
      destinationReference |-> "refs/heads/main", sourceCommit |-> "commit-src",
      destinationCommit |-> "commit-dst", mergeBase |-> "commit-dst",
      mergeMetadata |-> [isMerged |-> FALSE]],
     [repositoryName |-> "repo", sourceReference |-> "refs/heads/fix/1",
      destinationReference |-> "refs/heads/main", sourceCommit |-> "commit-src",
      destinationCommit |-> "commit-dst", mergeBase |-> "commit-base",
      mergeMetadata |-> [isMerged |-> TRUE, mergedBy |-> "arn:user",
                         mergeCommitId |-> "commit-merge",
                         mergeOption |-> "FAST_FORWARD_MERGE"]],
     [repositoryName |-> "repo", sourceReference |-> "refs/heads/feature/b",
      destinationReference |-> "refs/heads/main", sourceCommit |-> "commit-dst",
      destinationCommit |-> "commit-dst", mergeBase |-> "commit-dst"],
     [repositoryName |-> "repo", sourceReference |-> "refs/heads/feature/a",
      destinationReference |-> "refs/heads/main", sourceCommit |-> "commit-src",
      destinationCommit |-> "commit-dst"]}

MaxUpserts == 3

\* BuildJob instances before any upsert: as BuildJob(...) makes one from a
\* project name alone, and with the override list and env_var that
\* extract_build_job_from_codecommit_event gives a job
ProbedJobs ==
    {BuildJob("start_build", [projectName |-> "project-a"]),
     [BuildJob("start_build",
               [projectName |-> "project-a",
                sourceVersion |-> "commit-src",
                environmentVariablesOverride |->
                    <<[name |-> "CC_EVENT_EVENT", value |-> "pullRequestCreated",
                       type |-> "PLAINTEXT"],
                      [name |-> "CC_EVENT_TITLE", value |-> "t", type |-> "PLAINTEXT"]>>])
        EXCEPT !.env_var = [k \in {"CC_EVENT_EVENT", "CC_EVENT_TITLE"} |->
                               IF k = "CC_EVENT_EVENT" THEN "pullRequestCreated" ELSE "t"]]}

UpsertKeys == {"CI_DATA_COMMENT_ID", "CC_EVENT_TITLE"}
UpsertValues == {"comment-1", "comment-2"}

-----------------------------------------------------------------------------
(* The run *)

Reset ==
    /\ cc_event' = DefaultEvent
    /\ commit_message' = ""
    /\ kind' = None
    /\ decision' = None
    /\ env_prefix' = ""
    /\ env_var' = None
    /\ restored' = None
    /\ parsed' = None
    /\ stub' = {}
    /\ has_type' = None
    /\ flags' = None
    /\ branch_tests' = None
    /\ accessors' = None
    /\ jobs' = <<>>
    /\ job_index' = 0
    /\ calls' = <<>>
    /\ raised' = None
    /\ build_job_comment_id' = None
    /\ cb_event' = None
    /\ cache' = <<>>
    /\ reads' = <<>>
    /\ commit_result' = None
    /\ pr_target' = None
    /\ probe_job' = None

Init ==
    /\ pc = "idle"
    /\ cc_event = DefaultEvent
    /\ commit_message = ""
    /\ kind = None
    /\ decision = None
    /\ env_prefix = ""
    /\ env_var = None
    /\ restored = None
    /\ parsed = None
    /\ stub = {}
    /\ has_type = None
    /\ flags = None
    /\ branch_tests = None
    /\ accessors = None
    /\ jobs = <<>>
    /\ job_index = 0
    /\ calls = <<>>
    /\ raised = None
    /\ build_job_comment_id = None
    /\ cb_event = None
    /\ cache = <<>>
    /\ reads = <<>>
    /\ commit_result = None
    /\ pr_target = None
    /\ probe_job = None

\* lambda_handler: a CodeCommit notification arrives and becomes cc_event
Receive ==
    /\ pc = "idle"
    /\ \E n \in Notifications :
        /\ cc_event' = n[1]
        /\ commit_message' = n[2]
    /\ pc' = "received"
    /\ UNCHANGED <<kind, decision, env_prefix, env_var, restored, parsed, stub, has_type>>
    /\ UNCHANGED <<probe_vars, dispatch_vars>>
    /\ UNCHANGED <<lookup_vars, client_vars>>

\* handle_codecommit_event: the log line reads cc_event.event_type
LogEventType ==
    /\ pc = "received"
    /\ kind' = Some(cached_property_get(cache, "event_type", event_type(cc_event)))
    /\ cache' = cached_property_set(cache, "event_type", event_type(cc_event))
    /\ pc' = "classified"
    /\ UNCHANGED <<cc_event, commit_message, decision, env_prefix, env_var,
                   restored, parsed, stub, has_type>>
    /\ UNCHANGED <<probe_vars, dispatch_vars, reads, client_vars>>

\* the call of get_commit_message_and_committer for the source commit
get_commit_call(e, found) ==
    [op |-> "get_commit", repo_name |-> e.repositoryName,
     commit_id |-> source_commit(e), ok |-> found]

\* handle_codecommit_event: identify if we trigger the job; the commit
\* lookup the policy needs may raise
DoWeTriggerBuildJob ==
    /\ pc = "classified"
    /\ \E found \in BOOLEAN :
        IF reads_commit_message(cc_event) /\ needs_commit_lookup(cache)
        THEN /\ reads' = Append(reads, get_commit_call(cc_event, found))
             /\ IF found
                THEN /\ decision' = Some(do_we_trigger_build_job(cc_event, commit_message))
                     /\ cache' = cache_after_policy(cache, cc_event, commit_message)
                     /\ raised' = None
                     /\ pc' = "decided"
                ELSE /\ decision' = None
                     /\ cache' = cache
                     /\ raised' = Some("get_commit_message_and_committer")
                     /\ pc' = "failed"
        ELSE /\ reads' = reads
             /\ decision' = Some(do_we_trigger_build_job(
                                    cc_event,
                                    cached_property_get(cache, "commit_message",
                                                        commit_message)))
             /\ cache' = cache_after_policy(cache, cc_event, commit_message)
             /\ raised' = None
             /\ pc' = "decided"
    /\ UNCHANGED <<cc_event, commit_message, kind, env_prefix, env_var,
                   restored, parsed, stub, has_type>>
    /\ UNCHANGED <<probe_vars, jobs, job_index, calls, build_job_comment_id, cb_event>>
    /\ UNCHANGED client_vars

\* cc_event.to_env_var(prefix)
ToEnvVar ==
    /\ pc = "idle"
    /\ \E e \in SerializedEvents, prefix \in Prefixes :
        /\ cc_event' = e
        /\ env_prefix' = prefix
        /\ env_var' = to_env_var(e, prefix)
    /\ pc' = "serialized"
    /\ UNCHANGED <<commit_message, kind, decision, restored, parsed, stub, has_type>>
    /\ UNCHANGED <<probe_vars, dispatch_vars>>
    /\ UNCHANGED <<lookup_vars, client_vars>>

\* CodeCommitEvent.from_env_var(env_var, prefix)
FromEnvVar ==
    /\ pc = "serialized"
    /\ restored' = Some(from_env_var(env_var, env_prefix))
    /\ pc' = "restored"
    /\ UNCHANGED <<cc_event, commit_message, kind, decision, env_prefix, env_var,
                   parsed, stub, has_type>>
    /\ UNCHANGED <<probe_vars, dispatch_vars>>
    /\ UNCHANGED <<lookup_vars, client_vars>>

\* default_parser.parse_message(commit_message)
ParseMessage ==
    /\ pc = "idle"
    /\ \E m \in Messages :
        /\ commit_message' = m
        /\ parsed' = Some(parse_message(m))
    /\ pc' = "parsed"
    /\ UNCHANGED <<cc_event, kind, decision, env_prefix, env_var, restored, stub, has_type>>
    /\ UNCHANGED <<probe_vars, dispatch_vars>>
    /\ UNCHANGED <<lookup_vars, client_vars>>

\* is_certain_semantic_commit(commit_message, stub)
IsCertainSemanticCommit ==
    /\ pc = "idle"
    /\ \E m \in Messages, st \in Stubs :
        /\ commit_message' = m
        /\ stub' = st
        /\ has_type' = Some(is_certain_semantic_commit(m, st))
    /\ pc' = "checked"
    /\ UNCHANGED <<cc_event, kind, decision, env_prefix, env_var, restored, parsed>>
    /\ UNCHANGED <<probe_vars, dispatch_vars>>
    /\ UNCHANGED <<lookup_vars, client_vars>>

\* the is_*_commit functions of conventional_commits.py, called on a message
IsCommit ==
    /\ pc = "idle"
    /\ \E m \in CommitMessages :
        /\ commit_message' = m
        /\ flags' = Some([feat |-> is_feat_commit(m),
                          fix |-> is_fix_commit(m),
                          test |-> is_test_commit(m),
                          utest |-> is_utest_commit(m),
                          itest |-> is_itest_commit(m),
                          ltest |-> is_ltest_commit(m),
                          doc |-> is_doc_commit(m),
                          build |-> is_build_commit(m),
                          publish |-> is_publish_commit(m),
                          release |-> is_release_commit(m)])
    /\ pc' = "flagged"
    /\ UNCHANGED <<cc_event, kind, decision, env_prefix, env_var, restored,
                   parsed, stub, has_type>>
    /\ UNCHANGED <<branch_tests, accessors, dispatch_vars>>
    /\ UNCHANGED <<lookup_vars, client_vars>>

\* the is_*_branch functions of semantic_branch.py, called on a name
IsBranch ==
    /\ pc = "idle"
    /\ \E name \in BranchNames :
        branch_tests' = Some([name |-> name,
                              main |-> is_main_branch(name),
                              develop |-> is_develop_branch(name),
                              feature |-> is_feature_branch(name),
                              release |-> is_release_branch(name),
                              fix |-> is_fix_branch(name),
                              build |-> is_build_branch(name),
                              doc |-> is_doc_branch(name)])
    /\ pc' = "branch_tested"
    /\ UNCHANGED <<event_vars, flags, accessors, dispatch_vars>>
    /\ UNCHANGED <<lookup_vars, client_vars>>

\* the cached properties source_branch, source_commit, target_branch and
\* target_commit of an event are read
Properties ==
    /\ pc = "idle"
    /\ \E e \in InspectedEvents :
        /\ cc_event' = e
        /\ accessors' = Some([source_branch |-> source_branch(e),
                              source_commit |-> source_commit(e),
                              target_branch |-> target_branch(e),
                              target_commit |-> target_commit(e)])
    /\ pc' = "inspected"
    /\ UNCHANGED <<commit_message, kind, decision, env_prefix, env_var, restored,
                   parsed, stub, has_type>>
    /\ UNCHANGED <<flags, branch_tests, dispatch_vars>>
    /\ UNCHANGED <<lookup_vars, client_vars>>

\* handle_codecommit_event: a job is done, the for loop goes on
NextJob ==
    /\ job_index' = job_index + 1
    /\ pc' = IF job_index < Len(jobs) THEN "job" ELSE "done"

\* handle_codecommit_event: analyze event; codebuild-projects.json is
\* read at the source commit and parsed, which may raise
ExtractBuildJob ==
    /\ pc = "decided"
    /\ ~ is_not_true(decision[1])
    /\ \E file \in ManifestFiles :
        /\ reads' = Append(reads, [op |-> "get_text_file_content",
                                   repo_name |-> cc_event.repositoryName,
                                   commit_id |-> source_commit(cc_event),
                                   file |-> file])
        /\ raised' = parse_codebuild_projects_config(file).raised
        /\ IF parse_codebuild_projects_config(file).raised = None
           THEN /\ jobs' = extract_build_job_from_codecommit_event(
                               cc_event, parse_codebuild_projects_config(file).value)
                /\ job_index' = 1
                /\ pc' = IF parse_codebuild_projects_config(file).value = <<>>
                         THEN "done" ELSE "job"
           ELSE /\ jobs' = <<>>
                /\ job_index' = 0
                /\ pc' = "failed"
    /\ UNCHANGED <<event_vars, probe_vars, calls, build_job_comment_id, cb_event>>
    /\ UNCHANGED <<cache, client_vars>>

\* handle_codecommit_event, loop body for a PR job: the commit message is
\* read (looked up unless cached), the comment is posted and, when that
\* worked, its id goes into the job's environment
PostComment ==
    /\ pc = "job"
    /\ jobs[job_index].is_pr
    /\ \E found \in BOOLEAN, ok \in BOOLEAN :
        /\ reads' = IF needs_commit_lookup(cache)
                    THEN Append(reads, get_commit_call(cc_event, found))
                    ELSE reads
        /\ IF needs_commit_lookup(cache) /\ ~ found
           THEN /\ cache' = cache
                /\ calls' = calls
                /\ build_job_comment_id' = build_job_comment_id
                /\ jobs' = jobs
                /\ pc' = "failed"
                /\ raised' = Some("get_commit_message_and_committer")
           ELSE /\ cache' = cache_with_commit(cache, commit_message)
                /\ calls' = Append(calls,
                        [op |-> "post_comment_for_pull_request",
                         job |-> job_index,
                         kwargs |-> post_comment_kwargs(jobs[job_index], commit_message),
                         ok |-> ok])
                /\ IF ok
                   THEN /\ build_job_comment_id' = Some(PostedCommentId(job_index))
                        /\ jobs' = [jobs EXCEPT ![job_index] =
                                      job_with_ci_data(
                                          [jobs[job_index] EXCEPT !.commit_message = commit_message],
                                          PostedCommentId(job_index), commit_message)]
                        /\ pc' = "commented"
                        /\ raised' = None
                   ELSE /\ build_job_comment_id' = build_job_comment_id
                        /\ jobs' = [jobs EXCEPT ![job_index].commit_message = commit_message]
                        /\ pc' = "failed"
                        /\ raised' = Some("post_comment_for_pull_request")
    /\ UNCHANGED <<event_vars, probe_vars, job_index, cb_event>>
    /\ UNCHANGED client_vars

\* handle_codecommit_event, loop body: job.start_build()
StartBuild ==
    /\ pc = "commented" \/ (pc = "job" /\ ~ jobs[job_index].is_pr)
    /\ \E ok \in BOOLEAN :
        /\ calls' = Append(calls,
                [op |-> jobs[job_index].start_build_method,
                 job |-> job_index,
                 kwargs |-> jobs[job_index].start_build_kwargs,
                 ok |-> ok])
        /\ IF ok
           THEN /\ jobs' = [jobs EXCEPT ![job_index].build_run_id = StartedBuildId(job_index)]
                /\ raised' = None
                /\ IF jobs[job_index].is_pr
                   THEN pc' = "started" /\ job_index' = job_index
                   ELSE NextJob
           ELSE /\ jobs' = jobs
                /\ raised' = Some(jobs[job_index].start_build_method)
                /\ pc' = "failed"
                /\ job_index' = job_index
    /\ UNCHANGED <<event_vars, probe_vars, build_job_comment_id, cb_event>>
    /\ UNCHANGED <<lookup_vars, client_vars>>

\* handle_codecommit_event, loop body for a PR job: update the comment
\* content, include the build job link; the content reads the commit
\* message and the committer name again
UpdateComment ==
    /\ pc = "started"
    /\ \E found \in BOOLEAN, ok \in BOOLEAN :
        /\ reads' = IF needs_commit_lookup(cache)
                    THEN Append(reads, get_commit_call(cc_event, found))
                    ELSE reads
        /\ IF needs_commit_lookup(cache) /\ ~ found
           THEN /\ cache' = cache
                /\ calls' = calls
                /\ raised' = Some("get_commit_message_and_committer")
                /\ pc' = "failed"
                /\ job_index' = job_index
           ELSE /\ cache' = cache_with_commit(cache, commit_message)
                /\ calls' = Append(calls,
                        [op |-> "update_comment",
                         job |-> job_index,
                         kwargs |-> update_comment_kwargs(jobs[job_index],
                                                          build_job_comment_id[1],
                                                          jobs[job_index].build_run_id),
                         ok |-> ok])
                /\ IF ok
                   THEN raised' = None /\ NextJob
                   ELSE /\ raised' = Some("update_comment")
                        /\ pc' = "failed"
                        /\ job_index' = job_index
    /\ UNCHANGED <<event_vars, probe_vars, jobs, build_job_comment_id, cb_event>>
    /\ UNCHANGED client_vars

\* lambda_handler: a CodeBuild notification arrives and becomes cb_event
ReceiveBuildNotification ==
    /\ pc = "idle"
    /\ \E ev \in BuildNotifications : cb_event' = Some(ev)
    /\ pc' = "build_received"
    /\ UNCHANGED <<event_vars, probe_vars, jobs, job_index, calls, raised,
                   build_job_comment_id>>
    /\ UNCHANGED <<lookup_vars, client_vars>>

\* handle_codebuild_event
HandleCodebuildEvent ==
    /\ pc = "build_received"
    /\ \E got \in BOOLEAN, ok \in BOOLEAN :
        /\ calls' = handle_codebuild_event(cb_event[1], got, ok).calls
        /\ raised' = handle_codebuild_event(cb_event[1], got, ok).raised
        /\ pc' = IF handle_codebuild_event(cb_event[1], got, ok).raised = None
                 THEN "done" ELSE "failed"
    /\ UNCHANGED <<event_vars, probe_vars, jobs, job_index, build_job_comment_id,
                   cb_event>>
    /\ UNCHANGED <<lookup_vars, client_vars>>

\* commit_file(..., skip_if_no_change) of cc_client.py or better_boto.py
CommitFile ==
    /\ pc = "idle"
    /\ \E module \in CommitFileModules, branch \in GetBranchOutcomes,
          put \in PutFileOutcomes, skip_if_no_change \in BOOLEAN :
        commit_result' = Some([module |-> module,
                               branch |-> branch,
                               put |-> put,
                               skip_if_no_change |-> skip_if_no_change,
                               outcome |-> commit_file(module, branch, put,
                                                       skip_if_no_change)])
    /\ pc' = "committed"
    /\ UNCHANGED <<event_vars, probe_vars, dispatch_vars, lookup_vars, pr_target, probe_job>>

\* PulLRequestTarget.from_dict(dct), as PullRequest.from_dict calls it
FromDict ==
    /\ pc = "idle"
    /\ \E dct \in PullRequestTargets :
        pr_target' = Some([dct |-> dct, outcome |-> from_dict(dct)])
    /\ pc' = "built"
    /\ UNCHANGED <<event_vars, probe_vars, dispatch_vars, lookup_vars,
                   commit_result, probe_job>>

\* job.upsert_env_var(key, value), on a new job or on the job of the
\* calls before
UpsertEnvVar ==
    /\ pc \in {"idle", "upserted"}
    /\ \E key \in UpsertKeys, value \in UpsertValues :
        IF pc = "idle"
        THEN \E job \in ProbedJobs :
                probe_job' = Some([before |-> job,
                                   upserts |-> <<[key |-> key, value |-> value]>>,
                                   job |-> upsert_env_var(job, key, value)])
        ELSE /\ Len(probe_job[1].upserts) < MaxUpserts
             /\ probe_job' = Some([before |-> probe_job[1].before,
                                   upserts |-> Append(probe_job[1].upserts,
                                                      [key |-> key, value |-> value]),
                                   job |-> upsert_env_var(probe_job[1].job, key, value)])
    /\ pc' = "upserted"
    /\ UNCHANGED <<event_vars, probe_vars, dispatch_vars, lookup_vars,
                   commit_result, pr_target>>

\* the call returns or ends with its exception; nothing is kept between
\* invocations
Return ==
    /\ pc \in {"decided", "restored", "parsed", "checked", "flagged",
              "branch_tested", "inspected", "done", "failed", "committed", "built",
              "upserted"}
    /\ pc = "decided" => is_not_true(decision[1])
    /\ pc' = "idle"
    /\ Reset

Next ==
    \/ Receive
    \/ LogEventType
    \/ DoWeTriggerBuildJob
    \/ ToEnvVar
    \/ FromEnvVar
    \/ ParseMessage
    \/ IsCertainSemanticCommit
    \/ IsCommit
    \/ IsBranch
    \/ Properties
    \/ ExtractBuildJob
    \/ PostComment
    \/ StartBuild
    \/ UpdateComment
    \/ ReceiveBuildNotification
    \/ HandleCodebuildEvent
    \/ CommitFile
    \/ FromDict
    \/ UpsertEnvVar
    \/ Return

Spec == Init /\ [][Next]_vars

-----------------------------------------------------------------------------
(* Trigger policy *)

Decided == pc = "decided"
KindIs(kinds) == kind # None /\ kind[1] \in kinds

\* the branch categories of the policy: the classification table, in its
\* order, with the custom category "layer"
BranchCategory(name) ==
    LET n == lower(name) IN
    IF n \in {"main", "master"} THEN "main"
    ELSE IF startswith(n, "dev") THEN "develop"
    ELSE IF startswith(n, "feat") THEN "feature"
    ELSE IF startswith(n, "rls") \/ startswith(n, "release") THEN "release"
    ELSE IF startswith(n, "fix") THEN "hotfix"
    ELSE IF startswith(n, "build") THEN "build"
    ELSE IF startswith(n, "doc") THEN "doc"
    ELSE IF startswith(n, "layer") THEN "layer"
    ELSE "none"

\* the branch names of a PR event: the references without "refs/heads/"
ShortName(ref) ==
    IF startswith(ref, "refs/heads/") THEN SubSeq(ref, Len("refs/heads/") + 1, Len(ref))
    ELSE ref

SourceCategory == BranchCategory(ShortName(cc_event.sourceReference))
TargetCategory == BranchCategory(ShortName(cc_event.destinationReference))

\* the commit types each source category asks for; feat, test, publish and
\* release stand for the keyword sets of the commit predicates
RequiredTypes(category) ==
    CASE category = "feature" ->
            {"feat", "feature", "build", "pub", "publish", "utest", "itest", "ltest"}
      [] category = "layer" -> {"feat", "feature", "build", "pub", "publish", "utest"}
      [] category = "release" ->
            {"test", "utest", "itest", "ltest", "fix", "rls", "release"}
      [] category = "hotfix" -> {"fix"}
      [] OTHER -> {}

\* the types a message declares; none when it does not parse
TypesOf(r) == IF r.raised \/ r.value = None THEN {} ELSE SeqToSet(r.value[1].types)
DeclaredTypes(msg) == TypesOf(parse_message(msg))

\* C1: do_we_trigger_build_job returns true for every pr-merged event,
\* whatever its source branch, target branch and commit message are.
C1_PrMergedAlwaysTriggers ==
    Decided /\ KindIs({pr_merged}) => decision = Some(TRUE)

\* a pr-merged event from a branch of no category, with a "no ci" message,
\* has been decided
C1_Witness ==
    /\ Decided /\ KindIs({pr_merged})
    /\ SourceCategory = "none"
    /\ startswith(commit_message, "no ci")
    /\ decision = Some(TRUE)

\* C2: for a pr-created or pr-updated event without the "no ci" marker, from
\* a feature, layer, release or hotfix branch to main, the decision is true
\* exactly when the commit message declares a type required for the category
\* of the source branch.
C2_CompatibilityTable ==
    /\ Decided
    /\ KindIs({pr_created, pr_updated})
    /\ ~ startswith(commit_message, "no ci")
    /\ SourceCategory \in {"feature", "layer", "release", "hotfix"}
    /\ TargetCategory = "main"
    => decision = Some(DeclaredTypes(commit_message) \cap RequiredTypes(SourceCategory) # {})

\* a hotfix branch with "fix: x" is approved
C2_Witness ==
    /\ Decided /\ KindIs({pr_created})
    /\ SourceCategory = "hotfix" /\ TargetCategory = "main"
    /\ commit_message = "fix: x"
    /\ decision = Some(TRUE)

\* a hotfix branch with "feat: x" is denied
C2_WitnessDenied ==
    /\ Decided /\ KindIs({pr_updated})
    /\ SourceCategory = "hotfix" /\ TargetCategory = "main"
    /\ commit_message = "feat: x"
    /\ decision = Some(FALSE)

\* C3: a pr-created or pr-updated event whose commit message begins with
\* "no ci" is denied, for every source branch, target branch and declared type.
C3_NoCiDenied ==
    /\ Decided
    /\ KindIs({pr_created, pr_updated})
    /\ startswith(commit_message, "no ci")
    => decision = Some(FALSE)

\* a "no ci" message that declares types valid for the source branch, from a
\* feature branch to main, is denied
C3_Witness ==
    /\ Decided /\ KindIs({pr_created})
    /\ SourceCategory = "feature" /\ TargetCategory = "main"
    /\ startswith(commit_message, "no ci")
    /\ "feat" \in DeclaredTypes(commit_message)
    /\ decision = Some(FALSE)

\* C4: a pr-created or pr-updated event is denied whenever its source branch
\* is not a feature, layer, release or hotfix branch, and whenever its target
\* branch is not a main branch, whatever the commit message declares.
C4_BranchesDenied ==
    /\ Decided
    /\ KindIs({pr_created, pr_updated})
    /\ \/ SourceCategory \notin {"feature", "layer", "release", "hotfix"}
       \/ TargetCategory # "main"
    => decision = Some(FALSE)

\* a feature branch with a feat commit is denied for a target that is not main
C4_Witness ==
    /\ Decided /\ KindIs({pr_created})
    /\ SourceCategory = "feature" /\ TargetCategory = "develop"
    /\ commit_message = "feat: x"
    /\ decision = Some(FALSE)

\* a develop branch with a feat commit is denied for the target main
C4_WitnessSource ==
    /\ Decided /\ KindIs({pr_updated})
    /\ SourceCategory = "develop" /\ TargetCategory = "main"
    /\ commit_message = "feat: x"
    /\ decision = Some(FALSE)

C5_WitnessMerge ==
    /\ Decided /\ KindIs({commit_to_branch_from_merge})
    /\ cc_event.referenceName = "main"
    /\ decision = Some(FALSE)

\* C6: the decision is true only for the kinds pr-created, pr-updated and
\* pr-merged; every other kind is denied for all field values.
C6_DefaultDeny ==
    Decided /\ decision = Some(TRUE) => KindIs({pr_created, pr_updated, pr_merged})

\* an event of unknown kind and an override of an approval rule are denied
C6_Witness ==
    Decided /\ KindIs({unknown}) /\ decision = Some(FALSE)

C6_WitnessOverride ==
    Decided /\ KindIs({approve_rule_override}) /\ decision = Some(FALSE)

-----------------------------------------------------------------------------
(* Event classifier *)

\* the classification table: the rules in priority order, each with the
\* condition on the raw fields and the kind it gives
RuleTable(e) ==
    <<[match |-> e.event = "referenceUpdated" /\ e.mergeOption # "",
       kind |-> commit_to_branch_from_merge],
      [match |-> e.event = "referenceUpdated", kind |-> commit_to_branch],
      [match |-> e.event = "referenceCreated", kind |-> create_branch],
      [match |-> e.event = "referenceDeleted", kind |-> delete_branch],
      [match |-> /\ e.event = "pullRequestCreated"
                 /\ e.isMerged = "False" /\ e.pullRequestStatus = "Open",
       kind |-> pr_created],
      [match |-> e.event = "pullRequestStatusChanged" /\ e.pullRequestStatus = "Closed",
       kind |-> pr_closed],
      [match |-> e.event = "pullRequestSourceBranchUpdated", kind |-> pr_updated],
      [match |-> /\ e.event = "pullRequestMergeStatusUpdated"
                 /\ e.isMerged = "True" /\ e.pullRequestStatus = "Closed",
       kind |-> pr_merged],
      [match |-> e.event = "commentOnPullRequestCreated" /\ e.inReplyTo # "",
       kind |-> reply_to_comment],
      [match |-> e.event = "commentOnPullRequestCreated", kind |-> comment_on_pr_created],
      [match |-> e.event = "commentOnPullRequestUpdated" /\ e.inReplyTo # "",
       kind |-> reply_to_comment],
      [match |-> e.event = "commentOnPullRequestUpdated", kind |-> comment_on_pr_updated],
      [match |-> e.event = "pullRequestApprovalStateChanged" /\ e.approvalStatus = "APPROVE",
       kind |-> approve_pr],
      [match |-> e.event = "pullRequestApprovalRuleOverridden",
       kind |-> approve_rule_override],
      [match |-> TRUE, kind |-> unknown]>>

FirstMatch(e) ==
    LET t == RuleTable(e)
        i == CHOOSE i \in DOMAIN t : t[i].match /\ \A j \in 1..(i - 1) : ~ t[j].match
    IN t[i].kind

\* C7: for every combination of the raw fields, event_type is one kind, the
\* kind of the first rule of the table that matches, and unknown when no rule
\* matches; a merge status update with isMerged "True" and status "Closed"
\* is pr-merged and the same payload with isMerged "False" is unknown.
C7_EventTypeFirstMatch ==
    kind # None =>
        /\ kind[1] \in CodeCommitEventTypeEnum
        /\ kind = Some(FirstMatch(cc_event))
        /\ /\ cc_event.event = "pullRequestMergeStatusUpdated"
           /\ cc_event.pullRequestStatus = "Closed"
           => /\ cc_event.isMerged = "True" => kind = Some(pr_merged)
              /\ cc_event.isMerged = "False" => kind = Some(unknown)

\* a merge status update of a closed PR that is not merged is unknown
C7_Witness ==
    /\ kind = Some(unknown)
    /\ cc_event.event = "pullRequestMergeStatusUpdated"
    /\ cc_event.pullRequestStatus = "Closed"
    /\ cc_event.isMerged = "False"

-----------------------------------------------------------------------------
(* Serialization *)

\* C8: from_env_var(to_env_var(e, p), p) equals e field by field, for every
\* event e and prefix p, and no two fields share a key.
C8_EnvVarRoundTrip ==
    pc = "restored" =>
        /\ restored = Some(cc_event)
        /\ \A f \in Fields : restored[1][f] = cc_event[f]
        /\ Cardinality(DOMAIN env_var) = Cardinality(Fields)

\* an event with values in all fields went through a lower-case prefix
C8_Witness ==
    /\ pc = "restored"
    /\ env_prefix = "custom_"
    /\ \A f \in Fields \ DiscriminantFields : cc_event[f] # ""
    /\ "CUSTOM_SOURCEREFERENCE" \in DOMAIN env_var
    /\ restored = Some(cc_event)

-----------------------------------------------------------------------------
(* Commit message parser *)

FirstLine(msg) ==
    LET i == IndexOf(msg, "\n") IN IF i = 0 THEN msg ELSE SubSeq(msg, 1, i - 1)

\* the parts of a subject around its first colon
BeforeColon(subject) == SubSeq(subject, 1, IndexOf(subject, ":") - 1)
AfterColon(subject) == SubSeq(subject, IndexOf(subject, ":") + 1, Len(subject))
EndsWith(s, c) == s # "" /\ SubSeq(s, Len(s), Len(s)) = c
DropLast(s) == SubSeq(s, 1, Len(s) - 1)

\* what the grammar <types>[ (<scope>)][!]: <description> says of a subject
GrammarBreaking(subject) ==
    IF EndsWith(BeforeColon(subject), "!") THEN Some("!") ELSE None
GrammarHead(subject) ==
    IF EndsWith(BeforeColon(subject), "!") THEN DropLast(BeforeColon(subject))
    ELSE BeforeColon(subject)
GrammarScope(subject) ==
    LET h == GrammarHead(subject) IN
    IF EndsWith(h, ")") THEN Some(SubSeq(h, IndexOf(h, "(") + 1, Len(h) - 1)) ELSE None
GrammarTypes(subject) ==
    LET h == GrammarHead(subject)
        text == IF EndsWith(h, ")") THEN SubSeq(h, 1, IndexOf(h, "(") - 1) ELSE h
        words == split(text, ",")
        stripped == [i \in DOMAIN words |-> strip(words[i])]
    IN SelectSeq(stripped, LAMBDA w : w \in parser_types)
GrammarDescription(subject) ==
    LET a == AfterColon(subject) IN
    IF Len(a) >= 2 /\ Head(a) \in {" ", "\t"} THEN Tail(a) ELSE a

C9_Examples ==
    {<<"feat, build(STORY-001): add validator\nWe have done the following",
       [types |-> <<"feat", "build">>, description |-> "add validator",
        scope |-> Some("STORY-001"), breaking |-> None]>>,
     <<"fix (API)!: no longer support X",
       [types |-> <<"fix">>, description |-> "no longer support X",
        scope |-> Some("API"), breaking |-> Some("!")]>>,
     <<"fix:no space after colon",
       [types |-> <<"fix">>, description |-> "no space after colon",
        scope |-> None, breaking |-> None]>>}

-----------------------------------------------------------------------------
(* Commit semantics *)

\* the message of the state parses
Parses == parse_message(commit_message).value # None

\* C11: for a message that parses and any set one_of, has_type is true
\* exactly when the parsed types and one_of share a keyword; is_test holds
\* exactly when the types contain test, utest, itest or ltest (so is_utest,
\* is_itest and is_ltest each imply is_test), is_publish exactly when they
\* contain pub or publish, is_release exactly when they contain rls or release.
C11_HasTypeIsIntersection ==
    /\ (pc = "checked" /\ Parses) =>
          /\ ~has_type[1].raised
          /\ has_type[1].value <=> (DeclaredTypes(commit_message) \cap stub # {})
    /\ (pc = "flagged" /\ Parses) =>
          LET types == DeclaredTypes(commit_message) IN
          /\ flags[1].test <=> (types \cap {"test", "utest", "itest", "ltest"} # {})
          /\ flags[1].publish <=> (types \cap {"pub", "publish"} # {})
          /\ flags[1].release <=> (types \cap {"rls", "release"} # {})
          /\ (flags[1].utest \/ flags[1].itest \/ flags[1].ltest) => flags[1].test

\* a unit test commit is a test commit
C11_Witness ==
    /\ pc = "flagged"
    /\ commit_message = "utest: x"
    /\ flags[1].utest
    /\ flags[1].test

\* a parsed message whose types miss the given set
C11_WitnessDisjoint ==
    /\ pc = "checked"
    /\ commit_message = "feat: x"
    /\ stub = {"fix"}
    /\ has_type = Some([raised |-> FALSE, value |-> FALSE])

\* the words of the types group of a subject that matches the pattern
TypeTokens(subject) ==
    LET words == split(subject_regex_match(subject)[1].types, ",")
    IN [i \in DOMAIN words |-> strip(words[i])]

InVocabulary(word) == word \in parser_types

\* C12: when the subject matches the grammar, parsing succeeds; the types
\* of the record are the type tokens that are vocabulary keywords, in
\* written order, the others (also those that differ only in letter case,
\* as "Feat") being dropped; when no token is a keyword the record has an
\* empty types list.
C12_UnknownTypesDropped ==
    LET subject == strip(FirstLine(commit_message)) IN
    (pc = "parsed" /\ subject_regex_match(subject) # None) =>
        /\ ~ parsed[1].raised
        /\ parsed[1].value # None
        /\ parsed[1].value[1].types = SelectSeq(TypeTokens(subject), InVocabulary)
        /\ "Feat" \notin SeqToSet(parsed[1].value[1].types)
        /\ (\A i \in DOMAIN TypeTokens(subject) : ~ InVocabulary(TypeTokens(subject)[i]))
              => parsed[1].value[1].types = <<>>

\* an unknown word and a capitalised keyword stood between two keywords
C12_Witness ==
    /\ pc = "parsed"
    /\ commit_message = "fix, wip, Feat, feat: x"
    /\ parsed[1].value # None
    /\ parsed[1].value[1].types = <<"fix", "feat">>

\* a subject of the grammar with no keyword at all
C12_WitnessEmpty ==
    /\ pc = "parsed"
    /\ commit_message = "Feat: x"
    /\ parsed[1].value # None
    /\ parsed[1].value[1].types = <<>>
    /\ parsed[1].value[1].description = "x"

\* how many entries of q are x
Count(q, x) == Cardinality({i \in DOMAIN q : q[i] = x})

\* C13 as stated: no keyword appears more than once in the types list of a
\* parsed commit, also when the subject declares it several times.
C13_TypesDeduplicated ==
    (pc = "parsed" /\ parsed[1].value # None) =>
        \A w \in parser_types : Count(parsed[1].value[1].types, w) <= 1

\* C13: the types list of a parsed commit holds vocabulary keywords only,
\* and each keyword as many times as the subject line declares it: a type
\* declared twice is listed twice.
C13_TypesKeepRepetitions ==
    (pc = "parsed" /\ parsed[1].value # None) =>
        LET types == parsed[1].value[1].types
            tokens == TypeTokens(strip(FirstLine(commit_message)))
        IN /\ \A i \in DOMAIN types : types[i] \in parser_types
           /\ \A w \in parser_types : Count(types, w) = Count(tokens, w)

\* the subject that declares fix twice has been parsed
C13_Witness ==
    /\ pc = "parsed"
    /\ commit_message = "fix, fix: x"
    /\ parsed[1].value # None
    /\ parsed[1].value[1].types = <<"fix", "fix">>

-----------------------------------------------------------------------------
(* Branch classifier *)

\* the category the classification table gives a name
TableCategory(name) ==
    LET n == lower(name) IN
    CASE n \in {"main", "master"} -> "main"
      [] startswith(n, "dev") -> "develop"
      [] startswith(n, "feat") -> "feature"
      [] startswith(n, "rls") \/ startswith(n, "release") -> "release"
      [] startswith(n, "fix") -> "hotfix"
      [] startswith(n, "build") -> "build"
      [] startswith(n, "doc") -> "doc"
      [] OTHER -> "none"

\* the category predicates that hold of the tested name
TrueBranchTests ==
    {c \in {"main", "develop", "feature", "release", "fix", "build", "doc"} :
        branch_tests[1][c]}

\* C14: the branch predicates match without regard to letter case: main
\* only a name equal to "main" or "master", develop / feature / release /
\* hotfix / build / doc the names starting with "dev" / "feat" / "rls" or
\* "release" / "fix" / "build" / "doc", and no predicate any other name; at
\* most one predicate is true of a name.
C14_OneBranchCategory ==
    pc = "branch_tested" =>
        LET t == branch_tests[1]
            c == TableCategory(t.name)
        IN /\ t.main <=> c = "main"
           /\ t.develop <=> c = "develop"
           /\ t.feature <=> c = "feature"
           /\ t.release <=> c = "release"
           /\ t.fix <=> c = "hotfix"
           /\ t.build <=> c = "build"
           /\ t.doc <=> c = "doc"
           /\ Cardinality(TrueBranchTests) <= 1
           /\ c = "none" <=> TrueBranchTests = {}

\* a name that starts with "main" without being it is of no category
C14_Witness ==
    /\ pc = "branch_tested"
    /\ branch_tests[1].name = "maintenance"
    /\ TrueBranchTests = {}

\* a capitalised prefix is recognised
C14_WitnessCase ==
    /\ pc = "branch_tested"
    /\ branch_tests[1].name = "Feature"
    /\ TrueBranchTests = {"feature"}

-----------------------------------------------------------------------------
(* Derived accessors *)

Inspected == pc = "inspected"
InspectedKind == event_type(cc_event)

PrKinds == {pr_created, pr_updated, pr_merged, pr_closed}
ApprovalKinds == {approve_pr, approve_rule_override}
CommitKinds == {commit_to_branch, commit_to_branch_from_merge}
CommentKinds == {comment_on_pr_created, comment_on_pr_updated, reply_to_comment}

\* C15 as stated: source_branch is, for PR and approval kinds,
\* sourceReference without "refs/heads/" when it starts with it and
\* sourceReference unchanged otherwise; for commit kinds referenceName; for
\* comment kinds and unknown the empty string.
C15_SourceBranch ==
    Inspected =>
        LET b == accessors[1].source_branch IN
        /\ InspectedKind \in PrKinds \cup ApprovalKinds
              => b = ShortName(cc_event.sourceReference)
        /\ InspectedKind \in CommitKinds => b = cc_event.referenceName
        /\ InspectedKind \in CommentKinds \cup {unknown} => b = ""

\* C16 as stated: for comment-created, comment-updated and reply-to-comment
\* events source_commit is afterCommitId, target_commit is beforeCommitId,
\* and source_branch and target_branch are empty.
C16_CommentAccessors ==
    (Inspected /\ InspectedKind \in CommentKinds) =>
        /\ accessors[1].source_commit = cc_event.afterCommitId
        /\ accessors[1].target_commit = cc_event.beforeCommitId
        /\ accessors[1].source_branch = ""
        /\ accessors[1].target_branch = ""

C17_WitnessCommit ==
    /\ Inspected
    /\ InspectedKind = commit_to_branch
    /\ accessors[1].target_branch = ""
    /\ accessors[1].source_commit = "v-commitId"
    /\ accessors[1].target_commit = "v-oldCommitId"

-----------------------------------------------------------------------------
(* Build dispatcher *)

StartOps == {"start_build", "start_build_batch"}

\* the entries of the manifest the handler read, with their defaults
ManifestRead ==
    parse_codebuild_projects_config(
        reads[CHOOSE k \in DOMAIN reads : reads[k].op = "get_text_file_content"].file).value

\* handle_codecommit_event is dispatching or has ended
Dispatching == pc \in {"job", "commented", "started"} \/ (pc \in {"done", "failed"} /\ cb_event = None)

\* handle_codecommit_event has ended, by return or by exception
HandlerEnded == pc \in {"done", "failed"} /\ cb_event = None

\* C18 as stated: when the manifest lists several jobs, a failure while
\* dispatching one of them does not keep the dispatcher from the others:
\* by the end of the handler the build start of every job whose own comment
\* did not fail has been attempted, and every job has been attempted.
C18_EveryJobAttempted ==
    (HandlerEnded /\ Len(jobs) > 1) =>
        \A i \in DOMAIN jobs : \E k \in DOMAIN calls : calls[k].job = i

\* C19: for every job of a PR trigger the comment is posted, then the build
\* is started, then that comment (the id the post returned) is updated with
\* the run id the build start returned; no build is started before its
\* comment exists, and the jobs are handled one after another in manifest
\* order.
C19_CommentBuildUpdateOrder ==
    Dispatching =>
        /\ \A k \in DOMAIN calls :
            /\ calls[k].op \in StartOps \cup {"update_comment", "post_comment_for_pull_request"}
            /\ calls[k].op = "post_comment_for_pull_request" =>
                  IF k = 1 THEN calls[k].job = 1
                  ELSE /\ calls[k - 1].op = "update_comment"
                       /\ calls[k - 1].ok
                       /\ calls[k].job = calls[k - 1].job + 1
            /\ calls[k].op \in StartOps =>
                  /\ k > 1
                  /\ calls[k - 1].op = "post_comment_for_pull_request"
                  /\ calls[k - 1].ok
                  /\ calls[k - 1].job = calls[k].job
                  /\ calls[k].kwargs.projectName = ManifestRead[calls[k].job].project_name
            /\ calls[k].op = "update_comment" =>
                  /\ k > 2
                  /\ calls[k - 1].op \in StartOps
                  /\ calls[k - 1].ok
                  /\ calls[k - 1].job = calls[k].job
                  /\ calls[k].kwargs.comment_id = PostedCommentId(calls[k].job)
                  /\ calls[k].kwargs.build_run_id = StartedBuildId(calls[k].job)
        /\ (pc = "done" /\ raised = None) => Len(calls) = 3 * Len(jobs)

\* two jobs were dispatched without a failure
C19_Witness ==
    /\ pc = "done"
    /\ cb_event = None
    /\ Len(jobs) = 2
    /\ Len(calls) = 6
    /\ calls[4].op = "post_comment_for_pull_request"
    /\ calls[5].op = "start_build_batch"
    /\ calls[6].op = "update_comment"
    /\ calls[6].kwargs.comment_id = "comment-2"
    /\ calls[6].kwargs.build_run_id = StartedBuildId(2)

ReplyCalls == {k \in DOMAIN calls : calls[k].op = "reply_comment"}

\* C20 as stated: for a build notification whose status is SUCCEEDED,
\* FAILED or STOPPED the handler reads CI_DATA_COMMENT_ID from the build's
\* environment and posts exactly one reply, to that comment, that names the
\* status (the build has the variable and no client call fails).
C20_TerminalStatusReply ==
    (/\ pc \in {"done", "failed"}
     /\ cb_event # None
     /\ is_state_change_event(cb_event[1])
     /\ cb_event[1].build_status \in {"SUCCEEDED", "FAILED", "STOPPED"}
     /\ "CI_DATA_COMMENT_ID" \in DOMAIN env_of(cb_event[1].environment)
     /\ raised = None) =>
        /\ Cardinality(ReplyCalls) = 1
        /\ \A k \in ReplyCalls :
              /\ calls[k].comment_id = env_of(cb_event[1].environment)["CI_DATA_COMMENT_ID"]
              /\ calls[k].content = "Build Run " \o cb_event[1].build_status

-----------------------------------------------------------------------------
(* Build manifest *)

\* the handler has read codebuild-projects.json
ManifestWasRead == \E k \in DOMAIN reads : reads[k].op = "get_text_file_content"

\* the file it read
ManifestFile == reads[CHOOSE k \in DOMAIN reads : reads[k].op = "get_text_file_content"].file

\* the file is missing, is not JSON or has an entry without project_name
ManifestIsDefective(file) ==
    \/ ~ file.exists
    \/ file.json = None
    \/ \E i \in DOMAIN file.json[1] : "project_name" \notin DOMAIN file.json[1][i]

\* C21 as stated: a manifest that is missing, is not valid JSON or has an
\* entry without project_name makes the evaluation fail with an error, no
\* comment is posted and no build is started; an entry that leaves
\* is_batch_job out gives a start_build job and one that leaves buildspec
\* out gives a job without buildspecOverride.
C21_ManifestErrors ==
    ManifestWasRead =>
        /\ ManifestIsDefective(ManifestFile) =>
              /\ raised # None
              /\ pc = "failed"
              /\ calls = <<>>
        /\ ~ ManifestIsDefective(ManifestFile) =>
              \A i \in DOMAIN jobs :
                 /\ "is_batch_job" \notin DOMAIN ManifestFile.json[1][i] =>
                        jobs[i].start_build_method = "start_build"
                 /\ "buildspec" \notin DOMAIN ManifestFile.json[1][i] =>
                        "buildspecOverride" \notin DOMAIN jobs[i].start_build_kwargs

-----------------------------------------------------------------------------
(* Documented trigger rules *)

\* C23 as stated: by default a commit pushed to the master branch triggers
\* a build job (trigger rule 1 of the handler's documentation): for a
\* commit-to-branch event on master the decision is to trigger.
C23_CommitToMasterTriggers ==
    (/\ Decided
     /\ KindIs({commit_to_branch})
     /\ cc_event.referenceName = "master") => decision = Some(TRUE)

\* messages that consist of type keywords only, with the flags of IsCommit
\* that tests/test_notification.py expects for them
KeywordOnlyMessages ==
    [m \in {"feat:", "utest:", "itest:", "ltest:", "build", "pub", "rls", "fix",
            "utest, itest", "feat"} |->
        IF m = "feat:" THEN {"feat"}
        ELSE IF m = "utest:" THEN {"utest", "test"}
        ELSE IF m = "itest:" THEN {"itest", "test"}
        ELSE IF m = "ltest:" THEN {"ltest", "test"}
        ELSE IF m = "build" THEN {"build"}
        ELSE IF m = "pub" THEN {"publish"}
        ELSE IF m = "rls" THEN {"release"}
        ELSE IF m = "fix" THEN {"fix"}
        ELSE IF m = "feat" THEN {"feat"}
        ELSE {"utest", "itest", "test"}]

\* C24 as stated: a message that consists only of type keywords, with a
\* trailing colon and no description or with no colon at all, is a commit
\* of those types: the matching is_*_commit functions return true, and
\* is_test_commit does for utest, itest and ltest.
C24_KeywordOnlyMessages ==
    (/\ pc = "flagged"
     /\ commit_message \in DOMAIN KeywordOnlyMessages) =>
        \A t \in KeywordOnlyMessages[commit_message] : flags[1][t]

-----------------------------------------------------------------------------
(* Policy before dispatch *)

\* C25: when the decision is to deny, the handler performs no dispatcher
\* side effect: the manifest is not read, no comment is posted or updated
\* and no build is started; a build start occurs only after the decision
\* to trigger was taken for the same event.
C25_NoDispatchWhenDenied ==
    /\ decision = Some(FALSE) =>
          /\ calls = <<>>
          /\ jobs = <<>>
          /\ ~ ManifestWasRead
          /\ pc \notin {"job", "commented", "started", "done", "failed"}
    /\ (\E k \in DOMAIN calls : calls[k].op \in StartOps) =>
          /\ decision = Some(TRUE)
          /\ ManifestWasRead
          /\ ManifestFile.exists

\* a pr-created event was denied
C25_Witness ==
    /\ Decided
    /\ KindIs({pr_created})
    /\ decision = Some(FALSE)
    /\ calls = <<>>

\* a build was started for an event the policy let through
C25_WitnessStarted ==
    /\ pc = "started"
    /\ decision = Some(TRUE)
    /\ calls[Len(calls)].op = "start_build"

-----------------------------------------------------------------------------
(* Build-start requests *)

\* the positions of the build-start requests in the call log
StartCalls == {k \in DOMAIN calls : calls[k].op \in StartOps}

\* the entries of environmentVariablesOverride that carry the name
Overrides(kwargs, name) ==
    {i \in DOMAIN kwargs.environmentVariablesOverride :
        kwargs.environmentVariablesOverride[i].name = name}

-----------------------------------------------------------------------------
(* Cached properties *)

\* the positions of the commit lookups in a log of reads
CommitLookups(log) == {k \in DOMAIN log : log[k].op = "get_commit"}

\* what the property of that name computes for the instance e, msg being
\* the message of its source commit
PropertyValue(name, e, msg) ==
    IF name = "event_type" THEN event_type(e)
    ELSE IF name = "source_branch" THEN source_branch(e)
    ELSE IF name = "target_branch" THEN target_branch(e)
    ELSE IF name = "commit_message" THEN msg
    ELSE IF name = "committer_name" THEN committer_name
    ELSE <<msg, committer_name>>

C27_WitnessMerged ==
    /\ pc = "done"
    /\ cb_event = None
    /\ KindIs({pr_merged})
    /\ Len(calls) = 6
    /\ Cardinality(CommitLookups(reads)) = 1
    /\ reads[2].op = "get_commit"

-----------------------------------------------------------------------------
(* Correlation data *)

\* C28: every build the dispatcher starts carries the correlation data:
\* every job of a triggering event is a PR job, and each build-start
\* request follows the successful post of its own job and holds exactly one
\* CI_DATA_COMMENT_ID, equal to the comment id that post returned, and
\* exactly one CI_DATA_COMMIT_MESSAGE, the commit message of the event;
\* with several jobs each request carries the id of its own comment.
C28_CorrelationData ==
    Dispatching =>
        /\ \A i \in DOMAIN jobs : jobs[i].is_pr
        /\ \A k \in StartCalls :
              /\ k > 1
              /\ calls[k - 1].op = "post_comment_for_pull_request"
              /\ calls[k - 1].ok
              /\ calls[k - 1].job = calls[k].job
              /\ Cardinality(Overrides(calls[k].kwargs, "CI_DATA_COMMENT_ID")) = 1
              /\ \A i \in Overrides(calls[k].kwargs, "CI_DATA_COMMENT_ID") :
                    calls[k].kwargs.environmentVariablesOverride[i].value =
                        PostedCommentId(calls[k].job)
              /\ Cardinality(Overrides(calls[k].kwargs, "CI_DATA_COMMIT_MESSAGE")) = 1
              /\ \A i \in Overrides(calls[k].kwargs, "CI_DATA_COMMIT_MESSAGE") :
                    calls[k].kwargs.environmentVariablesOverride[i].value = commit_message
              /\ \A j \in StartCalls :
                    j # k =>
                       \A i \in Overrides(calls[k].kwargs, "CI_DATA_COMMENT_ID") :
                          \A h \in Overrides(calls[j].kwargs, "CI_DATA_COMMENT_ID") :
                             calls[k].kwargs.environmentVariablesOverride[i].value #
                                 calls[j].kwargs.environmentVariablesOverride[h].value

\* the second job of a manifest was started with the id of its own comment
C28_Witness ==
    /\ pc = "started"
    /\ job_index = 2
    /\ Len(calls) = 5
    /\ calls[5].op = "start_build_batch"
    /\ build_job_comment_id = Some("comment-2")
    /\ \E i \in DOMAIN calls[5].kwargs.environmentVariablesOverride :
          calls[5].kwargs.environmentVariablesOverride[i] =
              [name |-> "CI_DATA_COMMENT_ID", value |-> "comment-2", type |-> "PLAINTEXT"]
    /\ \E i \in DOMAIN calls[2].kwargs.environmentVariablesOverride :
          calls[2].kwargs.environmentVariablesOverride[i] =
              [name |-> "CI_DATA_COMMENT_ID", value |-> "comment-1", type |-> "PLAINTEXT"]

-----------------------------------------------------------------------------
(* Client helpers *)

\* every call commit_file makes before returning has succeeded
CommitFileSucceeds(r) ==
    /\ get_last_commit_id_of_branch_is_defined(r.module)
    /\ r.branch.raised = None
    /\ r.put.raised = None

\* the write itself failed with the "content unchanged" condition
ContentUnchanged(r) ==
    /\ get_last_commit_id_of_branch_is_defined(r.module)
    /\ r.branch.raised = None
    /\ r.put.raised = Some("SameFileContentException")

\* the error commit_file runs into first
FirstError(r) ==
    IF ~ get_last_commit_id_of_branch_is_defined(r.module) THEN Some("NameError")
    ELSE IF r.branch.raised # None THEN r.branch.raised
    ELSE r.put.raised

C22_WitnessPropagates ==
    /\ pc = "committed"
    /\ commit_result # None
    /\ commit_result[1].module = "cc_client"
    /\ commit_result[1].skip_if_no_change
    /\ commit_result[1].outcome.raised = Some("ParentCommitIdOutdatedException")

\* C29 as stated: PulLRequestTarget.from_dict keeps source and destination
\* aligned: src_ref and src_commit are the payload's sourceReference and
\* sourceCommit, dst_ref and dst_commit its destinationReference and
\* destinationCommit.
C29_TargetAligned ==
    (pr_target # None /\ pr_target[1].outcome.raised = None) =>
        /\ pr_target[1].outcome.value[1].src_ref = pr_target[1].dct["sourceReference"]
        /\ pr_target[1].outcome.value[1].src_commit = pr_target[1].dct["sourceCommit"]
        /\ pr_target[1].outcome.value[1].dst_ref = pr_target[1].dct["destinationReference"]
        /\ pr_target[1].outcome.value[1].dst_commit = pr_target[1].dct["destinationCommit"]

\* the value upserted last under the key
LastUpserted(upserts, key) ==
    upserts[CHOOSE k \in DOMAIN upserts :
               /\ upserts[k].key = key
               /\ \A j \in DOMAIN upserts : upserts[j].key = key => j <= k].value

\* the override list of start-build arguments, empty when they hold none
OverrideList(kwargs) ==
    IF "environmentVariablesOverride" \in DOMAIN kwargs
    THEN kwargs.environmentVariablesOverride
    ELSE <<>>

\* C30 as stated: after any sequence of upsert_env_var calls env_var and
\* the environmentVariablesOverride list of the start-build arguments
\* agree: for every upserted key the list holds exactly one entry of that
\* name, whose value is the last value upserted and equals env_var[key],
\* and the entries of other names are unchanged; whether or not the
\* arguments held a list before the first upsert.
C30_EnvVarAgrees ==
    probe_job # None =>
        /\ \A k \in DOMAIN probe_job[1].upserts :
              /\ probe_job[1].upserts[k].key \in DOMAIN probe_job[1].job.env_var
              /\ probe_job[1].job.env_var[probe_job[1].upserts[k].key] =
                    LastUpserted(probe_job[1].upserts, probe_job[1].upserts[k].key)
              /\ Cardinality({i \in DOMAIN OverrideList(probe_job[1].job.start_build_kwargs) :
                                OverrideList(probe_job[1].job.start_build_kwargs)[i].name =
                                    probe_job[1].upserts[k].key}) = 1
              /\ \A i \in DOMAIN OverrideList(probe_job[1].job.start_build_kwargs) :
                    OverrideList(probe_job[1].job.start_build_kwargs)[i].name =
                        probe_job[1].upserts[k].key =>
                    OverrideList(probe_job[1].job.start_build_kwargs)[i].value =
                        LastUpserted(probe_job[1].upserts, probe_job[1].upserts[k].key)
        /\ \A i \in DOMAIN OverrideList(probe_job[1].before.start_build_kwargs) :
              (\A k \in DOMAIN probe_job[1].upserts :
                  probe_job[1].upserts[k].key #
                      OverrideList(probe_job[1].before.start_build_kwargs)[i].name) =>
                 /\ i \in DOMAIN OverrideList(probe_job[1].job.start_build_kwargs)
                 /\ OverrideList(probe_job[1].job.start_build_kwargs)[i] =
                       OverrideList(probe_job[1].before.start_build_kwargs)[i]

=============================================================================
